---- MODULE Spec2Model ----
(***************************************************************************)
(* Cross-chain delivery tracking of polds/ccip                             *)
(* (integration-tests/ccip-tests/actions/ccip_helpers.go): the correlation *)
(* stores fed by the subscription callbacks, the phase waits of            *)
(* ValidateRequestByTxHash with their timeout/reset logic, the             *)
(* connectivity flag, and the BalanceSheet.                                *)
(***************************************************************************)
EXTENDS Integers, Sequences, FiniteSets, TLC

(***************************************************************************)
(* Bounds of the model.                                                    *)
(***************************************************************************)
\* requests carried by the one transaction that is validated
NumReq == 2
\* sequence numbers known to the destination chain: 1..MaxSeq
MaxSeq == 3
\* cap on the length of the event list kept under one transaction hash
MaxSendEvents == 3
\* block timestamps and wall-clock readings: 0..MaxTime
MaxTime == 2
\* BalanceSheet: amounts 1..MaxAmt, at most MaxOps calls
MaxAmt == 2
MaxOps == 3
\* how often the one ExecutionStateChanged event of the race is stored
MaxRaceStores == 1
\* the resubscription attempts that fail
MaxWatchErrors == 1
\* the transactions in SentReqs
MaxTxs == 2
\* noOfRequests of a call of SendRequests or Multicall, and the requests sent in all
MaxBatch == 2
MaxSent == 3
\* the bytes of a Bytes32 (32 in the program)
Bytes32Len == 2
\* the characters of a JSON text that is not the result of MarshalJSON
MaxJsonLen == 6

(***************************************************************************)
(* Program constants.                                                      *)
(***************************************************************************)
\* `resetTimer > 2`: the number of timer resets a wait grants
MaxResets == 2
\* testhelpers.ExecutionStateSuccess / ExecutionStateFailure
ExecutionStateSuccess == 2
ExecutionStateFailure == 3
\* atomic.NewUint64(1)
InitialNextSeqNum == 1
\* `totalTime = time.Second`
ClampSeconds == 1

Chains == {"src", "dst"}
TxHash == "0xabc"
SeqNums == 1..MaxSeq
Times == 0..MaxTime
Reqs == 1..NumReq
\* the sequence numbers the source chain gave to the requests of the transaction
ReqSeqNums == 1..NumReq
Intervals == {iv \in SeqNums \X SeqNums : iv[1] <= iv[2]}
ExecStates == {ExecutionStateSuccess, ExecutionStateFailure}

\* testreporters.Phase
Phases == {"TX", "CCIPSendRe", "SourceLogFinalized", "Commit", "ReportBlessed", "ExecStateChanged"}

\* the waits of ValidateRequestByTxHash, in the order of its text
WaitOrder == << "AssertEventCCIPSendRequested", "AssertSendRequestedLogFinalized",
                "AssertSeqNumberExecuted", "AssertEventReportAccepted",
                "AssertReportBlessed", "AssertEventExecutionStateChanged" >>
Waits == {WaitOrder[i] : i \in 1..Len(WaitOrder)}
WaitIndex(w) == CHOOSE i \in 1..Len(WaitOrder) : WaitOrder[i] = w

VARIABLES
  \* correlation stores (sync.Map): functions whose domain is the set of keys held
  CCIPSendRequestedWatcher, ReportAcceptedWatcher, ReportBlessedWatcher,
  ReportBlessedBySeqNum, ExecStateChangedWatcher,
  \* CCIPCommon.IsConnectionRestoredRecently per chain: "nil", "true" or "false"
  IsConnectionRestoredRecently,
  \* DestCCIPModule.NextSeqNumToCommit and CCIPCommon.ARM (TRUE: a real ARM contract)
  NextSeqNumToCommit, ARM,
  \* the chains as the chain client shows them: the commit report's interval, the
  \* commit store's expected next sequence number, the block timestamps
  chain,
  \* time.Now()
  wallClock,
  \* ValidateRequestByTxHash: the wait it is in, and its locals
  pc, resetTimer, msgLogs, cur, stats, sourceLogFinalizedAt, commitReport,
  reportAcceptedAt, reportBlessedAt, lastErr,
  \* history: per request the waits that returned without error; the timer expiries of
  \* the wait in progress, and whether each of them saw the flag set and false; the wait
  \* that returned the error; whether a ConnectionIssue of the wait's chain was processed
  \* during the wait in progress (recorded by ConnectionIssueDuringWait)
  returned, expiries, sawIssue, failedAt, outage,
  \* BalanceSheet
  Items, PrevBalance,
  \* history of the BalanceSheet calls
  firstRecorded, sumAdd, sumSub, nOps,
  \* what the call of BalanceSheet.Verify did
  verifyResult,
  \* BalanceSheet.mu (its holder, or "free") and the calls of the goroutines that use the
  \* sheet concurrently
  mu, calls,
  \* lane.Context is cancelled; the `err` variable of StartEventWatchers that its watcher
  \* goroutines share; the watcher goroutines; the event of each kind on its chain
  ctxDone, sharedErr, watchers, chainEvent,
  \* history: a ConnectionRestored that followed a ConnectionIssue awaits the watcher's
  \* resubscription attempt; the resubscription attempts that failed so far
  restorePending, watchErrors,
  \* ValidateRequests: its argument, where it is ("validating", "updated", "returned",
  \* "failed"), and the transactions of SentReqs still to validate after the current one
  successfulExecution, validateRequests, txLeft,
  \* DestCCIPModule.AssertNoReportAcceptedEventReceived: where it is ("idle", "ticking",
  \* "error", "nil"), its lastSeenTimestamp, and (history) whether at a tick the store
  \* held a ReportAccepted event of a block later than lastSeenTimestamp
  noReport,
  \* CCIPLane.NumberOfReq, TotalFee and SentReqs (the requests of each transaction, in
  \* the order of their sending); the last call of SendRequests or Multicall with what it
  \* returned and the requests it made; (history) the requests sent and the fees added
  \* since the lane was made, and whether those of this round are validated
  lane, lastCall, totals,
  \* goroutines in AssertSeqNumberExecuted at the same time, one for each request: where
  \* each is ("idle", "select", "call", "store", "nil", "failed"), its arguments and
  \* locals; (history) the values GetExpectedNextSequenceNumber returned
  seqWaiters, seqReads,
  \* a call of UnmarshalJSON: the type, the receiver before, the data, and after the
  \* call the receiver and the error
  json,
  \* two goroutines in AssertEventExecutionStateChanged for one sequence number: where
  \* each is, the value it loaded, its resetTimer; and how often the event was stored
  racers, raceStored

storeVars == << CCIPSendRequestedWatcher, ReportAcceptedWatcher, ReportBlessedWatcher,
                ReportBlessedBySeqNum, ExecStateChangedWatcher >>
envVars == << IsConnectionRestoredRecently, ARM, chain, wallClock >>
valVars == << NextSeqNumToCommit, pc, resetTimer, msgLogs, cur, stats,
              sourceLogFinalizedAt, commitReport, reportAcceptedAt, reportBlessedAt,
              lastErr, returned, expiries, sawIssue, failedAt, outage >>
laneVars == << storeVars, envVars, valVars >>
balVars == << Items, PrevBalance, firstRecorded, sumAdd, sumSub, nOps, verifyResult >>
muVars == << mu, calls >>
vrVars == << successfulExecution, validateRequests, txLeft >>
sendVars == << lane, lastCall, totals >>
seqVars == << seqWaiters, seqReads >>
opVars == << noReport, sendVars, seqVars, json >>
watchVars == << ctxDone, sharedErr, watchers, chainEvent, restorePending, watchErrors >>
raceVars == << racers, raceStored >>
\* what the lane's own operations leave alone
otherVars == << balVars, raceVars, muVars, watchVars, vrVars, opVars >>
\* what the sheet's and the racing goroutines' operations leave alone
nonBalVars == << laneVars, raceVars, muVars, watchVars, vrVars, opVars >>
nonRaceVars == << laneVars, balVars, muVars, watchVars, vrVars, opVars >>
vars == << laneVars, balVars, raceVars, muVars, watchVars, vrVars, opVars >>
\* what the sending of requests leaves alone, the sheet apart
nonSendVars == << laneVars, raceVars, muVars, watchVars, vrVars, noReport, seqVars, json >>
\* what AssertNoReportAcceptedEventReceived leaves alone
nonNoReportVars == << laneVars, balVars, raceVars, muVars, watchVars, vrVars, sendVars,
                     seqVars, json >>
\* what the goroutines in AssertSeqNumberExecuted leave alone
nonSeqVars == << storeVars, envVars, pc, resetTimer, msgLogs, cur, sourceLogFinalizedAt,
                commitReport, reportAcceptedAt, reportBlessedAt, lastErr, returned,
                expiries, sawIssue, failedAt, outage, balVars, raceVars, muVars, watchVars,
                vrVars, noReport, sendVars, json >>
\* what UnmarshalJSON leaves alone
nonJsonVars == << laneVars, balVars, raceVars, muVars, watchVars, vrVars, noReport,
                 sendVars, seqVars >>

(***************************************************************************)
(* sync.Map                                                                *)
(***************************************************************************)
EmptyMap == << >>
Has(m, k) == k \in DOMAIN m
Store(m, k, v) == [x \in DOMAIN m \cup {k} |-> IF x = k THEN v ELSE m[x]]
\* Delete leaving the entry in place
DeleteKeeping(m, k) == m

Delete(m, k) == [x \in DOMAIN m \ {k} |-> m[x]]

(***************************************************************************)
(* testreporters.RequestStat                                               *)
(***************************************************************************)
NewRequestStat ==
  [SeqNum |-> 0,
   StatusByPhase |-> [p \in Phases |-> "Pending"],
   Duration |-> [p \in Phases |-> 0]]

UpdateState(stat, seqNum, step, duration, state) ==
  [stat EXCEPT !.SeqNum = seqNum,
               !.StatusByPhase[step] = state,
               !.Duration[step] = duration]

(***************************************************************************)
(* The events of the chains.  One commit report, with the interval the     *)
(* destination chain chose, is accepted and blessed; every request of the  *)
(* transaction emits one CCIPSendRequested event.                          *)
(***************************************************************************)
MerkleRoot == "0xroot"
SendRequestedEvent(s) == [SequenceNumber |-> s]
CommitReportOf(iv) == [Interval |-> [Min |-> iv[1], Max |-> iv[2]], MerkleRoot |-> MerkleRoot]
ReportAcceptedEvent == [Report |-> CommitReportOf(chain.interval)]
TaggedRootBlessedLog == [Root |-> MerkleRoot]
ExecutionStateChangedEvent(s, st) == [SequenceNumber |-> s, State |-> st]
NoReport == CommitReportOf(<<0, 0>>)

(***************************************************************************)
(* CCIPCommon.PollRPCConnection                                            *)
(***************************************************************************)
ConnectionRestored(c) ==
  /\ IsConnectionRestoredRecently' = [IsConnectionRestoredRecently EXCEPT ![c] = "true"]
  /\ UNCHANGED << storeVars, ARM, chain, wallClock, valVars, otherVars >>

\* ConnectionIssue unsetting the flag
ConnectionIssueUnsetting(c) ==
  /\ IsConnectionRestoredRecently' = [IsConnectionRestoredRecently EXCEPT ![c] = "nil"]
  /\ UNCHANGED << storeVars, ARM, chain, wallClock, valVars, otherVars >>

ConnectionIssue(c) ==
  /\ IsConnectionRestoredRecently' = [IsConnectionRestoredRecently EXCEPT ![c] = "false"]
  /\ UNCHANGED << storeVars, ARM, chain, wallClock, valVars, otherVars >>

\* ConnectionIssue, with its history: the wait in progress has seen an outage of its chain
ConnectionIssueDuringWait(c) ==
  /\ IsConnectionRestoredRecently' = [IsConnectionRestoredRecently EXCEPT ![c] = "false"]
  /\ outage' = TRUE
  /\ UNCHANGED << storeVars, ARM, chain, wallClock, NextSeqNumToCommit, pc, resetTimer,
                  msgLogs, cur, stats, sourceLogFinalizedAt, commitReport, reportAcceptedAt,
                  reportBlessedAt, lastErr, returned, expiries, sawIssue, failedAt,
                  otherVars >>

\* ConnectionIssueSeen without the nil check
ConnectionIssueSeenNoNilCheck(c) == IsConnectionRestoredRecently[c] # "true"

\* `IsConnectionRestoredRecently != nil && !IsConnectionRestoredRecently.Load()`
ConnectionIssueSeen(c) ==
  /\ IsConnectionRestoredRecently[c] # "nil"
  /\ IsConnectionRestoredRecently[c] # "true"

(***************************************************************************)
(* The subscription callbacks of StartEventWatchers                        *)
(***************************************************************************)
CCIPSendRequestedCallback(m, e) ==
  IF Has(m, TxHash)
    THEN Store(m, TxHash, Append(m[TxHash], e))
    ELSE Store(m, TxHash, << e >>)

RECURSIVE StoreRange(_, _, _, _)
\* `for i := Min; i <= Max; i++ { m.Store(i, v) }`
StoreRange(m, i, max, v) ==
  IF i <= max THEN StoreRange(Store(m, i, v), i + 1, max, v) ELSE m

ReportAcceptedCallback(m, e) ==
  StoreRange(m, e.Report.Interval.Min, e.Report.Interval.Max, e)

\* `if e.TaggedRoot.CommitStore == lane.Dest.CommitStore.EthAddress`
TaggedRootBlessedCallback(m, log, ownCommitStore) ==
  IF ownCommitStore THEN Store(m, log.Root, log) ELSE m

ExecutionStateChangedCallback(m, e) == Store(m, e.SequenceNumber, e)

\* the events the subscription can deliver next: the logs of the transaction come in the
\* order of their sequence numbers, and a replay delivers again one already delivered
Deliverable(m) ==
  IF Has(m, TxHash)
    THEN {s \in ReqSeqNums :
            \E i \in 1..Len(m[TxHash]) : s <= m[TxHash][i].SequenceNumber + 1}
    ELSE {1}

OnCCIPSendRequested(s) ==
  /\ s \in Deliverable(CCIPSendRequestedWatcher)
  /\ Has(CCIPSendRequestedWatcher, TxHash)
       => Len(CCIPSendRequestedWatcher[TxHash]) < MaxSendEvents
  /\ CCIPSendRequestedWatcher' =
       CCIPSendRequestedCallback(CCIPSendRequestedWatcher, SendRequestedEvent(s))
  /\ UNCHANGED << ReportAcceptedWatcher, ReportBlessedWatcher, ReportBlessedBySeqNum,
                  ExecStateChangedWatcher, envVars, valVars, otherVars >>

OnReportAccepted ==
  /\ ReportAcceptedWatcher' = ReportAcceptedCallback(ReportAcceptedWatcher, ReportAcceptedEvent)
  /\ UNCHANGED << CCIPSendRequestedWatcher, ReportBlessedWatcher, ReportBlessedBySeqNum,
                  ExecStateChangedWatcher, envVars, valVars, otherVars >>

\* the TaggedRootBlessed watcher runs only `if lane.Dest.Common.ARM != nil`
OnTaggedRootBlessed(ownCommitStore) ==
  /\ ARM
  /\ ReportBlessedWatcher' =
       TaggedRootBlessedCallback(ReportBlessedWatcher, TaggedRootBlessedLog, ownCommitStore)
  /\ UNCHANGED << CCIPSendRequestedWatcher, ReportAcceptedWatcher, ReportBlessedBySeqNum,
                  ExecStateChangedWatcher, envVars, valVars, otherVars >>

OnExecutionStateChanged(s, st) ==
  /\ ExecStateChangedWatcher' =
       ExecutionStateChangedCallback(ExecStateChangedWatcher, ExecutionStateChangedEvent(s, st))
  /\ UNCHANGED << CCIPSendRequestedWatcher, ReportAcceptedWatcher, ReportBlessedWatcher,
                  ReportBlessedBySeqNum, envVars, valVars, otherVars >>

\* the commit store (on chain) moves its expected next sequence number
CommitStoreAdvance ==
  /\ chain.nextSeq <= MaxSeq
  /\ chain' = [chain EXCEPT !.nextSeq = @ + 1]
  /\ UNCHANGED << storeVars, IsConnectionRestoredRecently, ARM, wallClock, valVars, otherVars >>

(***************************************************************************)
(* The phase waits.  Each wait is a select loop over a one second ticker   *)
(* and a timeout timer; a tick that finds nothing changes nothing, so the  *)
(* tick actions below are the ticks that find their key.                   *)
(***************************************************************************)
\* the chain whose IsConnectionRestoredRecently a wait consults
ChainOf(w) == IF w = "AssertEventCCIPSendRequested" THEN "src" ELSE "dst"

\* the phase a wait records
PhaseOf(w) ==
  CASE w = "AssertEventCCIPSendRequested" -> "CCIPSendRe"
    [] w = "AssertSendRequestedLogFinalized" -> "SourceLogFinalized"
    [] w = "AssertSeqNumberExecuted" -> "Commit"
    [] w = "AssertEventReportAccepted" -> "Commit"
    [] w = "AssertReportBlessed" -> "ReportBlessed"
    [] w = "AssertEventExecutionStateChanged" -> "ExecStateChanged"

\* ResetLimitReached off by one: `resetTimer > 3`
ResetLimitReachedLate(n) == n > MaxResets + 1

\* `if resetTimer > 2`
ResetLimitReached(n) == n > MaxResets

\* the `case <-timer.C:` branch: "reset", "rpc" (possible RPC issue) or "notfound"
TimerExpired(c, n) ==
  IF ConnectionIssueSeen(c)
    THEN IF ResetLimitReached(n) THEN "rpc" ELSE "reset"
    ELSE "notfound"

\* `time.Since(t)`
Since(t) == wallClock - t

\* the time ValidateRequestByTxHash hands to a wait as prevEventAt / timeNow
PrevEventAt(w) ==
  CASE w = "AssertEventCCIPSendRequested" -> chain.hdr.tx
    [] w = "AssertSendRequestedLogFinalized" -> chain.hdr.tx
    [] w = "AssertSeqNumberExecuted" -> sourceLogFinalizedAt
    [] w = "AssertEventReportAccepted" -> sourceLogFinalizedAt
    [] w = "AssertReportBlessed" -> reportAcceptedAt
    [] w = "AssertEventExecutionStateChanged" -> reportBlessedAt

\* the sequence number the loop of ValidateRequestByTxHash is at
CurSeq == msgLogs[cur].SequenceNumber

\* `for _, stat := range reqStats { if stat.SeqNum == seqNumber { reqStat = stat; break } }`
HasReqStat(sts, seq) == \E i \in Reqs : sts[i].SeqNum = seq
ReqStatOf(sts, seq) == CHOOSE i \in Reqs : /\ sts[i].SeqNum = seq
                                            /\ \A j \in Reqs : sts[j].SeqNum = seq => i <= j

\* the requests whose status log the wait in progress writes
Concerned(w) ==
  IF w \in {"AssertEventCCIPSendRequested", "AssertSendRequestedLogFinalized"}
    THEN Reqs
    ELSE {ReqStatOf(stats, CurSeq)}

\* the wait in progress returned nil: the history of the requests it concerns
ReturnedOk(w, rs) == [r \in Reqs |-> IF r \in rs THEN returned[r] \cup {w} ELSE returned[r]]

\* a wait begins: `timer := time.NewTimer(timeout)`, `resetTimer := 0`
BeginWait(w) ==
  /\ pc' = w
  /\ resetTimer' = 0
  /\ expiries' = 0
  /\ sawIssue' = TRUE
  /\ outage' = FALSE
  /\ UNCHANGED failedAt

\* NextWait with the ReportAccepted wait left out
NextWaitSkippingReportAccepted(w) ==
  CASE w = "AssertEventCCIPSendRequested" -> "AssertSendRequestedLogFinalized"
    [] w = "AssertSendRequestedLogFinalized" -> "AssertSeqNumberExecuted"
    [] w = "AssertSeqNumberExecuted" -> "AssertReportBlessed"
    [] w = "AssertEventReportAccepted" -> "AssertReportBlessed"
    [] w = "AssertReportBlessed" -> "AssertEventExecutionStateChanged"
    [] w = "AssertEventExecutionStateChanged" -> "AssertSeqNumberExecuted"

\* the wait ValidateRequestByTxHash calls once the wait w has returned nil (after the last
\* one, the next round of its loop)
NextWait(w) ==
  CASE w = "AssertEventCCIPSendRequested" -> "AssertSendRequestedLogFinalized"
    [] w = "AssertSendRequestedLogFinalized" -> "AssertSeqNumberExecuted"
    [] w = "AssertSeqNumberExecuted" -> "AssertEventReportAccepted"
    [] w = "AssertEventReportAccepted" -> "AssertReportBlessed"
    [] w = "AssertReportBlessed" -> "AssertEventExecutionStateChanged"
    [] w = "AssertEventExecutionStateChanged" -> "AssertSeqNumberExecuted"

\* AfterWaitError going on to the next wait
AfterWaitErrorSwallowed(w) == NextWait(w)

\* `if err != nil { return fmt.Errorf("could not validate ...: %w", err) }` after the call
\* of the wait w: where ValidateRequestByTxHash is next
AfterWaitError(w) == "failed"

\* ValidateRequestByTxHash returns an error
ReturnError(err) ==
  /\ pc' = AfterWaitError(pc)
  /\ lastErr' = err
  /\ failedAt' = pc
  /\ UNCHANGED << resetTimer, expiries, sawIssue, outage >>

\* the head of the `for _, msgLog := range msgLogs` loop for index k, with the status
\* log sts: the reqStat lookup, then AssertSeqNumberExecuted, or the return of nil
LoopHead(k, logs, sts) ==
  IF k > Len(logs)
    THEN /\ pc' = "done"
         /\ UNCHANGED << resetTimer, expiries, sawIssue, failedAt, lastErr, outage >>
    ELSE IF HasReqStat(sts, logs[k].SequenceNumber)
           THEN BeginWait(NextWait(pc)) /\ UNCHANGED lastErr
           ELSE ReturnError("nostat")

ValidateRequestByTxHash ==
  /\ pc = "idle"
  /\ BeginWait("AssertEventCCIPSendRequested")
  /\ UNCHANGED << storeVars, envVars, NextSeqNumToCommit, msgLogs, cur, stats,
                  sourceLogFinalizedAt, commitReport, reportAcceptedAt, reportBlessedAt,
                  lastErr, returned, otherVars >>

\* `exists && len(sendRequestedEvents) == len(reqStat)`
SendRequestedFound(m) == Has(m, TxHash) /\ Len(m[TxHash]) = NumReq

AssertEventCCIPSendRequested ==
  /\ pc = "AssertEventCCIPSendRequested"
  /\ SendRequestedFound(CCIPSendRequestedWatcher)
  /\ LET events == CCIPSendRequestedWatcher[TxHash] IN
       /\ CCIPSendRequestedWatcher' = Delete(CCIPSendRequestedWatcher, TxHash)
       /\ stats' = [i \in Reqs |->
            UpdateState(stats[i], events[i].SequenceNumber, "CCIPSendRe", 0, "Success")]
       /\ msgLogs' = events
  /\ returned' = ReturnedOk(pc, Reqs)
  /\ BeginWait(NextWait(pc))
  /\ UNCHANGED << ReportAcceptedWatcher, ReportBlessedWatcher, ReportBlessedBySeqNum,
                  ExecStateChangedWatcher, envVars, NextSeqNumToCommit, cur,
                  sourceLogFinalizedAt, commitReport, reportAcceptedAt, reportBlessedAt,
                  lastErr, otherVars >>

\* WaitForFinalizedTx of the chain client answers, with the finalized block's time or
\* with an error
AssertSendRequestedLogFinalized(finalized) ==
  /\ pc = "AssertSendRequestedLogFinalized"
  /\ IF finalized
       THEN /\ stats' = [i \in Reqs |->
                 UpdateState(stats[i], stats[i].SeqNum, "SourceLogFinalized",
                             chain.hdr.fin - PrevEventAt(pc), "Success")]
            /\ sourceLogFinalizedAt' = chain.hdr.fin
            /\ returned' = ReturnedOk(pc, Reqs)
            /\ cur' = 1
            /\ LoopHead(1, msgLogs, stats')
       ELSE /\ stats' = [i \in Reqs |->
                 UpdateState(stats[i], stats[i].SeqNum, "SourceLogFinalized",
                             Since(PrevEventAt(pc)), "Failure")]
            /\ ReturnError("finalize")
            /\ UNCHANGED << sourceLogFinalizedAt, returned, cur >>
  /\ UNCHANGED << storeVars, envVars, NextSeqNumToCommit, msgLogs, commitReport,
                  reportAcceptedAt, reportBlessedAt, otherVars >>

\* a tick of AssertSeqNumberExecuted that returns nil: the cached number, or the one
\* read from the commit store, exceeds seqNumberBefore
AssertSeqNumberExecuted ==
  /\ pc = "AssertSeqNumberExecuted"
  /\ IF NextSeqNumToCommit > CurSeq
       THEN UNCHANGED NextSeqNumToCommit
       ELSE /\ chain.nextSeq > CurSeq
            /\ NextSeqNumToCommit' = chain.nextSeq
  /\ returned' = ReturnedOk(pc, Concerned(pc))
  /\ BeginWait(NextWait(pc))
  /\ UNCHANGED << storeVars, envVars, msgLogs, cur, stats, sourceLogFinalizedAt,
                  commitReport, reportAcceptedAt, reportBlessedAt, lastErr, otherVars >>

\* `receivedAt := time.Now().UTC(); hdr, err := HeaderByNumber(...); if err == nil {
\*  receivedAt = hdr.Timestamp }`
ReceivedAt(hdrOk, blockTime) == IF hdrOk THEN blockTime ELSE wallClock

\* ReportAcceptedDuration without the clamp
ReportAcceptedDurationUnclamped(receivedAt, prev) == receivedAt - prev

\* `totalTime := receivedAt.Sub(prevEventAt); if totalTime < 0 { totalTime = time.Second }`
ReportAcceptedDuration(receivedAt, prev) ==
  IF receivedAt - prev < 0 THEN ClampSeconds ELSE receivedAt - prev

AssertEventReportAccepted(hdrOk) ==
  /\ pc = "AssertEventReportAccepted"
  /\ Has(ReportAcceptedWatcher, CurSeq)
  /\ LET reportAccepted == ReportAcceptedWatcher[CurSeq]
         receivedAt == ReceivedAt(hdrOk, chain.hdr.ra)
         r == ReqStatOf(stats, CurSeq)
     IN /\ ReportAcceptedWatcher' = Delete(ReportAcceptedWatcher, CurSeq)
        /\ stats' = [stats EXCEPT ![r] =
             UpdateState(@, CurSeq, "Commit",
                         ReportAcceptedDuration(receivedAt, PrevEventAt(pc)), "Success")]
        /\ commitReport' = reportAccepted.Report
        /\ reportAcceptedAt' = receivedAt
  /\ returned' = ReturnedOk(pc, Concerned(pc))
  /\ BeginWait(NextWait(pc))
  /\ UNCHANGED << CCIPSendRequestedWatcher, ReportBlessedWatcher, ReportBlessedBySeqNum,
                  ExecStateChangedWatcher, envVars, NextSeqNumToCommit, msgLogs, cur,
                  sourceLogFinalizedAt, reportBlessedAt, lastErr, otherVars >>

RECURSIVE ExpandRangeExclusive(_, _, _, _)
\* ExpandRange with `i < CommitReport.Interval.Max`
ExpandRangeExclusive(m, i, max, v) ==
  IF i < max THEN ExpandRangeExclusive(Store(m, i, v), i + 1, max, v) ELSE m

RECURSIVE ExpandRange(_, _, _, _)
\* `for i := CommitReport.Interval.Min; i <= CommitReport.Interval.Max; i++ {
\*  destCCIP.ReportBlessedBySeqNum.Store(i, vLogs) }`
ExpandRange(m, i, max, v) ==
  IF i <= max THEN ExpandRange(Store(m, i, v), i + 1, max, v) ELSE m

\* `if destCCIP.Common.ARM == nil { return prevEventAt, nil }`
AssertReportBlessedSkipped ==
  /\ pc = "AssertReportBlessed"
  /\ ~ARM
  /\ reportBlessedAt' = PrevEventAt(pc)
  /\ returned' = ReturnedOk(pc, Concerned(pc))
  /\ BeginWait(NextWait(pc))
  /\ UNCHANGED << storeVars, envVars, NextSeqNumToCommit, msgLogs, cur, stats,
                  sourceLogFinalizedAt, commitReport, reportAcceptedAt, lastErr, otherVars >>

\* BlessedConsumed storing the blessing under the waiter's own sequence number only
BlessedConsumedOwnSeqOnly(root, bySeq, report, seq) ==
  IF Has(root, report.MerkleRoot)
    THEN << Delete(root, report.MerkleRoot), Store(bySeq, seq, root[report.MerkleRoot]) >>
    ELSE << root, Delete(bySeq, seq) >>

\* the stores after a tick of AssertReportBlessed that found the blessing
BlessedConsumed(root, bySeq, report, seq) ==
  IF Has(root, report.MerkleRoot)
    THEN << Delete(root, report.MerkleRoot),
            ExpandRange(bySeq, report.Interval.Min, report.Interval.Max,
                        root[report.MerkleRoot]) >>
    ELSE << root, Delete(bySeq, seq) >>

AssertReportBlessed(hdrOk) ==
  /\ pc = "AssertReportBlessed"
  /\ ARM
  /\ \/ Has(ReportBlessedWatcher, commitReport.MerkleRoot)
     \/ Has(ReportBlessedBySeqNum, CurSeq)
  /\ LET after == BlessedConsumed(ReportBlessedWatcher, ReportBlessedBySeqNum,
                                  commitReport, CurSeq)
         receivedAt == ReceivedAt(hdrOk, chain.hdr.rb)
         r == ReqStatOf(stats, CurSeq)
     IN /\ ReportBlessedWatcher' = after[1]
        /\ ReportBlessedBySeqNum' = after[2]
        /\ stats' = [stats EXCEPT ![r] =
             UpdateState(@, CurSeq, "ReportBlessed", receivedAt - PrevEventAt(pc), "Success")]
        /\ reportBlessedAt' = receivedAt
  /\ returned' = ReturnedOk(pc, Concerned(pc))
  /\ BeginWait(NextWait(pc))
  /\ UNCHANGED << CCIPSendRequestedWatcher, ReportAcceptedWatcher, ExecStateChangedWatcher,
                  envVars, NextSeqNumToCommit, msgLogs, cur, sourceLogFinalizedAt,
                  commitReport, reportAcceptedAt, lastErr, otherVars >>

\* `execState := testhelpers.ExecutionStateSuccess; if !successfulExecution { execState =
\* testhelpers.ExecutionStateFailure }`
ExpectedExecState ==
  IF successfulExecution THEN ExecutionStateSuccess ELSE ExecutionStateFailure

\* the comparison made whatever the state is
StateNotCompared(e) == TRUE

\* `if testhelpers.MessageExecutionState(e.State) == execState`
StateAsExpected(e) == e.State = ExpectedExecState

AssertEventExecutionStateChanged(hdrOk) ==
  /\ pc = "AssertEventExecutionStateChanged"
  /\ Has(ExecStateChangedWatcher, CurSeq)
  /\ LET e == ExecStateChangedWatcher[CurSeq]
         receivedAt == ReceivedAt(hdrOk, chain.hdr.ex)
         r == ReqStatOf(stats, CurSeq)
     IN /\ ExecStateChangedWatcher' = Delete(ExecStateChangedWatcher, CurSeq)
        /\ IF StateAsExpected(e)
             THEN /\ stats' = [stats EXCEPT ![r] =
                       UpdateState(@, CurSeq, "ExecStateChanged",
                                   receivedAt - PrevEventAt(pc), "Success")]
                  /\ returned' = ReturnedOk(pc, Concerned(pc))
                  /\ cur' = cur + 1
                  /\ LoopHead(cur + 1, msgLogs, stats')
             ELSE /\ stats' = [stats EXCEPT ![r] =
                       UpdateState(@, CurSeq, "ExecStateChanged",
                                   Since(PrevEventAt(pc)), "Failure")]
                  /\ ReturnError("state")
                  /\ UNCHANGED << returned, cur >>
  /\ UNCHANGED << CCIPSendRequestedWatcher, ReportAcceptedWatcher, ReportBlessedWatcher,
                  ReportBlessedBySeqNum, envVars, NextSeqNumToCommit, msgLogs,
                  sourceLogFinalizedAt, commitReport, reportAcceptedAt, reportBlessedAt,
                  otherVars >>

\* the waits that run a timeout timer
TimedWaits == Waits \ {"AssertSendRequestedLogFinalized"}

\* the status log after the wait w gave up: AssertEventCCIPSendRequested marks every
\* request of the group (with sequence number 0), the other waits their own request
RecordFailure(w) ==
  IF w = "AssertEventCCIPSendRequested"
    THEN [i \in Reqs |-> UpdateState(stats[i], 0, PhaseOf(w), Since(PrevEventAt(w)), "Failure")]
    ELSE [stats EXCEPT ![ReqStatOf(stats, CurSeq)] =
            UpdateState(@, CurSeq, PhaseOf(w), Since(PrevEventAt(w)), "Failure")]

\* `case <-timer.C:` of the wait in progress
Timeout ==
  /\ pc \in TimedWaits
  /\ pc = "AssertReportBlessed" => ARM
  /\ expiries' = expiries + 1
  /\ sawIssue' = (sawIssue /\ IsConnectionRestoredRecently[ChainOf(pc)] = "false")
  /\ LET outcome == TimerExpired(ChainOf(pc), resetTimer) IN
       IF outcome = "reset"
         THEN /\ resetTimer' = resetTimer + 1
              /\ UNCHANGED << pc, stats, lastErr, failedAt >>
         ELSE /\ stats' = RecordFailure(pc)
              /\ pc' = AfterWaitError(pc)
              /\ lastErr' = outcome
              /\ failedAt' = pc
              /\ UNCHANGED resetTimer
  /\ UNCHANGED << storeVars, envVars, NextSeqNumToCommit, msgLogs, cur,
                  sourceLogFinalizedAt, commitReport, reportAcceptedAt, reportBlessedAt,
                  returned, outage, otherVars >>

(***************************************************************************)
(* BalanceSheet.  A *big.Int that may be nil is a sequence: << >> is nil,  *)
(* << n >> is the number n.                                                *)
(***************************************************************************)
Keys == {"BridgeToken-Sender", "FeeToken-OnRamp"}
Amounts == 1..MaxAmt
NilInt == << >>
BigInt(n) == << n >>
IsNil(a) == Len(a) = 0
OptAmounts == {NilInt} \cup {BigInt(n) : n \in Amounts}
\* the value of an amount, one left out counting as zero
AmtOrZero(a) == IF IsNil(a) THEN 0 ELSE a[1]
BalanceItems == [AmtToAdd : OptAmounts, AmtToSub : OptAmounts]
\* the snapshots testhelpers.GetBalances may return: a balance for some of the keys
Snapshots == UNION {[ks -> Amounts] : ks \in SUBSET Keys}

\* UpdateItems putting the given item in the place of the stored one
UpdateItemsReplacing(items, key, item) == Store(items, key, item)

\* the body of BalanceSheet.Update, under b.mu
UpdateItems(items, key, item) ==
  IF ~Has(items, key)
    THEN Store(items, key, item)
    ELSE LET prev == items[key]
             amtToAdd0 == IF ~IsNil(prev.AmtToAdd) THEN prev.AmtToAdd[1] ELSE 0
             amtToSub0 == IF ~IsNil(prev.AmtToSub) THEN prev.AmtToSub[1] ELSE 0
             amtToAdd == IF ~IsNil(item.AmtToAdd) THEN amtToAdd0 + item.AmtToAdd[1] ELSE amtToAdd0
             amtToSub == IF ~IsNil(item.AmtToSub) THEN amtToSub0 + item.AmtToSub[1] ELSE amtToSub0
         IN Store(items, key, [AmtToAdd |-> BigInt(amtToAdd), AmtToSub |-> BigInt(amtToSub)])

\* RecordPrevBalance without the `!ok` test
RecordPrevBalanceOverwriting(prev, bal) ==
  [k \in DOMAIN prev \cup DOMAIN bal |-> IF Has(bal, k) THEN bal[k] ELSE prev[k]]

\* the body of BalanceSheet.RecordBalance, under b.mu
RecordPrevBalance(prev, bal) ==
  [k \in DOMAIN prev \cup DOMAIN bal |-> IF Has(prev, k) THEN prev[k] ELSE bal[k]]

Update(key, item) ==
  /\ nOps < MaxOps
  /\ ~verifyResult.ran
  /\ nOps' = nOps + 1
  /\ Items' = UpdateItems(Items, key, item)
  /\ sumAdd' = [sumAdd EXCEPT ![key] = @ + AmtOrZero(item.AmtToAdd)]
  /\ sumSub' = [sumSub EXCEPT ![key] = @ + AmtOrZero(item.AmtToSub)]
  /\ UNCHANGED << PrevBalance, firstRecorded, verifyResult, nonBalVars >>

RecordBalance(bal) ==
  /\ nOps < MaxOps
  /\ ~verifyResult.ran
  /\ nOps' = nOps + 1
  /\ PrevBalance' = RecordPrevBalance(PrevBalance, bal)
  /\ firstRecorded' = [k \in Keys |->
       IF Has(bal, k)
         THEN [first |-> IF IsNil(firstRecorded[k].first) THEN BigInt(bal[k])
                         ELSE firstRecorded[k].first,
               last |-> BigInt(bal[k])]
         ELSE firstRecorded[k]]
  /\ UNCHANGED << Items, sumAdd, sumSub, verifyResult, nonBalVars >>

RECURSIVE DigitsOf(_)
\* the decimal digits of a natural number
DigitsOf(n) == IF n < 10 THEN << n >> ELSE Append(DigitsOf(n \div 10), n % 10)

\* big.Int.String(): the sign and the decimal digits
String(n) == IF n < 0 THEN [neg |-> TRUE, digits |-> DigitsOf(0 - n)]
                      ELSE [neg |-> FALSE, digits |-> DigitsOf(n)]

\* the balances the getters may return
ActualBalances == 0..(MaxAmt + 1)

\* ExpectedBalance leaving AmtToSub out
ExpectedBalanceWithoutSub(prevBalance, item) ==
  IF ~IsNil(item.AmtToAdd) THEN prevBalance + item.AmtToAdd[1] ELSE prevBalance

\* `exp := prevBalance`, AmtToAdd added and AmtToSub subtracted where they are not nil
ExpectedBalance(prevBalance, item) ==
  LET exp0 == prevBalance
      exp1 == IF ~IsNil(item.AmtToAdd) THEN exp0 + item.AmtToAdd[1] ELSE exp0
  IN IF ~IsNil(item.AmtToSub) THEN exp1 - item.AmtToSub[1] ELSE exp1

\* MissingBaseline asking for no key to have a baseline
MissingBaselineForAll(items, prev) ==
  DOMAIN items # {} /\ \A k \in DOMAIN items : ~Has(prev, k)

\* `require.Truef(t, ok, "previous balance is not captured for %s", key)` fails for
\* some key of the loop
MissingBaseline(items, prev) == \E k \in DOMAIN items : ~Has(prev, k)

NotVerified == [ran |-> FALSE, fatal |-> FALSE, asserted |-> EmptyMap, failed |-> {},
                actual |-> EmptyMap]

\* BalanceSheet.Verify with the getters returning the balances `actual`: the fatal
\* failure of require, or the expected strings handed to AssertBalances and the keys
\* for which its assert.Equal fails
VerifyOutcome(items, prev, actual) ==
  IF MissingBaseline(items, prev)
    THEN [NotVerified EXCEPT !.ran = TRUE, !.fatal = TRUE]
    ELSE LET compared == {k \in DOMAIN items : Has(prev, k)}
             Expected(k) == String(ExpectedBalance(prev[k], items[k]))
         IN [ran |-> TRUE, fatal |-> FALSE,
             asserted |-> [k \in compared |-> Expected(k)],
             failed |-> {k \in compared : Expected(k) # String(actual[k])},
             actual |-> actual]

Verify(actual) ==
  /\ ~verifyResult.ran
  /\ verifyResult' = VerifyOutcome(Items, PrevBalance, actual)
  /\ UNCHANGED << Items, PrevBalance, firstRecorded, sumAdd, sumSub, nOps, nonBalVars >>

(***************************************************************************)
(* Goroutines that call Update and RecordBalance concurrently.  A call     *)
(* locks b.mu, reads the map, writes the map and unlocks on return; the    *)
(* read and the write are separate steps of the goroutine.                 *)
(***************************************************************************)
Goroutines == {"t1", "t2"}
NoCall == [kind |-> "none", key |-> "", item |-> [AmtToAdd |-> NilInt, AmtToSub |-> NilInt],
           bal |-> EmptyMap]
UpdateCalls == {[NoCall EXCEPT !.kind = "Update", !.key = k, !.item = i] :
                  k \in Keys, i \in BalanceItems}
RecordBalanceCalls == {[NoCall EXCEPT !.kind = "RecordBalance", !.bal = b] : b \in Snapshots}
NotCalling == [pc |-> "idle", op |-> NoCall, seen |-> EmptyMap]

\* MuAcquirable for a mutex that excludes nobody
MuAlwaysAcquirable(m) == TRUE

\* b.mu.Lock() returns
MuAcquirable(m) == m = "free"

\* a goroutine calls Update or RecordBalance
MuCall(g, op) ==
  /\ calls[g].pc = "idle"
  /\ calls' = [calls EXCEPT ![g] = [pc |-> "waiting", op |-> op, seen |-> EmptyMap]]
  /\ UNCHANGED << mu, laneVars, balVars, raceVars, watchVars, vrVars, opVars >>

\* `b.mu.Lock()`
MuLock(g) ==
  /\ calls[g].pc = "waiting"
  /\ MuAcquirable(mu)
  /\ mu' = g
  /\ calls' = [calls EXCEPT ![g].pc = "locked"]
  /\ UNCHANGED << laneVars, balVars, raceVars, watchVars, vrVars, opVars >>

\* `prev, ok := b.Items[key]` of Update, `_, ok := b.PrevBalance[key]` of RecordBalance
MuRead(g) ==
  /\ calls[g].pc = "locked"
  /\ calls' = [calls EXCEPT ![g].pc = "loaded",
                            ![g].seen = IF calls[g].op.kind = "Update" THEN Items
                                                                       ELSE PrevBalance]
  /\ UNCHANGED << mu, laneVars, balVars, raceVars, watchVars, vrVars, opVars >>

\* the assignments to the map, from what the goroutine read, and the deferred
\* `b.mu.Unlock()`
MuWrite(g) ==
  /\ calls[g].pc = "loaded"
  /\ LET op == calls[g].op
         seen == calls[g].seen
     IN IF op.kind = "Update"
          THEN /\ Items' = Store(Items, op.key, UpdateItems(seen, op.key, op.item)[op.key])
               /\ sumAdd' = [sumAdd EXCEPT ![op.key] = @ + AmtOrZero(op.item.AmtToAdd)]
               /\ sumSub' = [sumSub EXCEPT ![op.key] = @ + AmtOrZero(op.item.AmtToSub)]
               /\ UNCHANGED << PrevBalance, firstRecorded >>
          ELSE /\ LET r == RecordPrevBalance(seen, op.bal) IN
                    PrevBalance' = [k \in DOMAIN PrevBalance \cup DOMAIN r |->
                                      IF Has(seen, k) \/ ~Has(op.bal, k)
                                        THEN PrevBalance[k] ELSE r[k]]
               /\ firstRecorded' = [k \in Keys |->
                    IF Has(op.bal, k)
                      THEN [first |-> IF IsNil(firstRecorded[k].first) THEN BigInt(op.bal[k])
                                      ELSE firstRecorded[k].first,
                            last |-> BigInt(op.bal[k])]
                      ELSE firstRecorded[k]]
               /\ UNCHANGED << Items, sumAdd, sumSub >>
  /\ mu' = "free"
  /\ calls' = [calls EXCEPT ![g] = [NotCalling EXCEPT !.pc = "done"]]
  /\ UNCHANGED << nOps, verifyResult, laneVars, raceVars, watchVars, vrVars, opVars >>

InitMu ==
  /\ mu = "free"
  /\ calls = [g \in Goroutines |-> NotCalling]

(***************************************************************************)
(* CCIPLane.StartEventWatchers: the watcher goroutines.  Each holds the    *)
(* subscription of one event kind, polls the connectivity flag of its      *)
(* chain every second, and resubscribes when the flag is true and it has   *)
(* not resubscribed yet.                                                   *)
(***************************************************************************)
Watchers == {"CCIPSendRequested", "ReportAccepted", "TaggedRootBlessed",
             "ExecutionStateChanged"}
WatcherChain(w) == IF w = "CCIPSendRequested" THEN "src" ELSE "dst"
\* `if lane.Dest.Common.ARM != nil` around the TaggedRootBlessed watcher
StartedWatchersAll(arm) == Watchers

StartedWatchers(arm) == IF arm THEN Watchers ELSE Watchers \ {"TaggedRootBlessed"}

\* a subscription: which one it is (1: made by StartEventWatchers, 2: made by the
\* goroutine) and the WatchOpts.Start it was made with; nil
NoSub == [id |-> 0, Start |-> "none"]
\* `Watch...(nil, ch)`
FirstSubscription == [id |-> 1, Start |-> "latest"]
\* `&bind.WatchOpts{Start: pointer.ToUint64(lane.Source.SrcStartBlock)}`, DestStartBlock
\* for the destination's watchers
StartBlockOf(w) == IF WatcherChain(w) = "src" THEN "SrcStartBlock" ELSE "DestStartBlock"
Resubscription(w) == [id |-> 2, Start |-> StartBlockOf(w)]

\* `go func(sub event.Subscription) { defer sub.Unsubscribe(); resubscribed := false`:
\* the deferred call's receiver is evaluated when the defer statement runs
DeferredSubscription == FirstSubscription
StartedWatcher ==
  [running |-> TRUE, pc |-> "select", sub |-> FirstSubscription, live |-> {1},
   healthy |-> TRUE, resubscribed |-> FALSE, attempt |-> "none"]
NotStarted ==
  [running |-> FALSE, pc |-> "select", sub |-> NoSub, live |-> {},
   healthy |-> FALSE, resubscribed |-> FALSE, attempt |-> "none"]

\* `if sub != nil { sub.Unsubscribe() }`
Unsubscribe(live, sub) == IF sub = NoSub THEN live ELSE live \ {sub.id}

\* the subscription of w delivers what its chain emits
Delivering(w) ==
  /\ watchers[w].live # {}
  /\ watchers[w].healthy
  /\ IsConnectionRestoredRecently[WatcherChain(w)] # "false"

\* the first condition of the poll: `if flag != nil && !flag.Load() { resubscribed = false }`
ResubscribedAfterFlag(flag, resubscribed) == IF flag = "false" THEN FALSE ELSE resubscribed
\* the second: `flag != nil && flag.Load() && !resubscribed`
WouldResubscribe(w) ==
  LET flag == IsConnectionRestoredRecently[WatcherChain(w)]
  IN flag = "true" /\ ~ResubscribedAfterFlag(flag, watchers[w].resubscribed)

\* `case <-time.After(1 * time.Second)`, up to the assignment `sub, err = Watch...(...)`,
\* which succeeds (ok) or returns a nil subscription and an error
WatcherPoll(w, ok) ==
  LET wr == watchers[w]
      flag == IsConnectionRestoredRecently[WatcherChain(w)]
  IN /\ wr.running
     /\ wr.pc = "select"
     /\ IF WouldResubscribe(w)
          THEN /\ ~ok => watchErrors < MaxWatchErrors
               /\ watchers' = [watchers EXCEPT ![w] =
                    [wr EXCEPT !.pc = "assigned",
                               !.sub = IF ok THEN Resubscription(w) ELSE NoSub,
                               !.live = Unsubscribe(wr.live, wr.sub)
                                          \cup (IF ok THEN {Resubscription(w).id} ELSE {}),
                               !.healthy = ok,
                               !.resubscribed = FALSE,
                               !.attempt = IF ok THEN "ok" ELSE "error"]]
               /\ sharedErr' = IF ok THEN "nil" ELSE "error"
               /\ watchErrors' = IF ok THEN watchErrors ELSE watchErrors + 1
               \* a subscription from the start block replays the chain's logs
               /\ chainEvent' = [chainEvent EXCEPT ![w] =
                    IF ok /\ @ = "history" /\ Resubscription(w).Start # "latest"
                      THEN "queued"
                      ELSE IF ~ok /\ @ = "queued" THEN "history" ELSE @]
               /\ restorePending' = [restorePending EXCEPT ![w] = FALSE]
          ELSE /\ ok
               /\ watchers' = [watchers EXCEPT ![w].resubscribed =
                                 ResubscribedAfterFlag(flag, wr.resubscribed)]
               /\ UNCHANGED << sharedErr, watchErrors, chainEvent, restorePending >>
     /\ UNCHANGED << ctxDone, laneVars, balVars, raceVars, muVars, vrVars, opVars >>

\* `if err != nil { resubscribed = false } else { resubscribed = true }`: err is the
\* variable of StartEventWatchers that every goroutine assigns
WatcherCheckErr(w) ==
  /\ watchers[w].running
  /\ watchers[w].pc = "assigned"
  /\ watchers' = [watchers EXCEPT ![w].pc = "select", ![w].resubscribed = (sharedErr = "nil")]
  /\ UNCHANGED << ctxDone, sharedErr, chainEvent, restorePending, watchErrors, laneVars,
                  balVars, raceVars, muVars, vrVars, opVars >>

\* the event of each kind that the chain emits
EventOf(w) ==
  CASE w = "CCIPSendRequested" -> SendRequestedEvent(1)
    [] w = "ReportAccepted" -> ReportAcceptedEvent
    [] w = "TaggedRootBlessed" -> TaggedRootBlessedLog
    [] w = "ExecutionStateChanged" -> ExecutionStateChangedEvent(1, ExecutionStateSuccess)

\* the watcher's store holds its event
EventStored(w) ==
  CASE w = "CCIPSendRequested" -> Has(CCIPSendRequestedWatcher, TxHash)
    [] w = "ReportAccepted" -> Has(ReportAcceptedWatcher, chain.interval[1])
    [] w = "TaggedRootBlessed" -> Has(ReportBlessedWatcher, MerkleRoot)
    [] w = "ExecutionStateChanged" -> Has(ExecStateChangedWatcher, 1)

\* `case e := <-ch`: the callback stores the event
WatcherReceive(w) ==
  /\ watchers[w].running
  /\ watchers[w].pc = "select"
  /\ chainEvent[w] = "queued"
  /\ chainEvent' = [chainEvent EXCEPT ![w] = "delivered"]
  /\ CCIPSendRequestedWatcher' =
       IF w = "CCIPSendRequested"
         THEN CCIPSendRequestedCallback(CCIPSendRequestedWatcher, EventOf(w))
         ELSE CCIPSendRequestedWatcher
  /\ ReportAcceptedWatcher' =
       IF w = "ReportAccepted"
         THEN ReportAcceptedCallback(ReportAcceptedWatcher, EventOf(w))
         ELSE ReportAcceptedWatcher
  /\ ReportBlessedWatcher' =
       IF w = "TaggedRootBlessed"
         THEN TaggedRootBlessedCallback(ReportBlessedWatcher, EventOf(w), TRUE)
         ELSE ReportBlessedWatcher
  /\ ExecStateChangedWatcher' =
       IF w = "ExecutionStateChanged"
         THEN ExecutionStateChangedCallback(ExecStateChangedWatcher, EventOf(w))
         ELSE ExecStateChangedWatcher
  /\ UNCHANGED << ReportBlessedBySeqNum, envVars, valVars, balVars, raceVars, muVars, vrVars, opVars,
                  ctxDone, sharedErr, watchers, restorePending, watchErrors >>

\* `case <-lane.Context.Done(): return`, and the deferred Unsubscribe
WatcherDone(w) ==
  /\ ctxDone
  /\ watchers[w].running
  /\ watchers[w].pc = "select"
  /\ watchers' = [watchers EXCEPT ![w].running = FALSE,
                                  ![w].live = Unsubscribe(@, DeferredSubscription)]
  /\ UNCHANGED << ctxDone, sharedErr, chainEvent, restorePending, watchErrors, laneVars,
                  balVars, raceVars, muVars, vrVars, opVars >>

\* the chain emits the event of kind w, at or after the start block: a delivering
\* subscription queues it on the watcher's channel, otherwise only the chain's log has it
EmitEvent(w) ==
  /\ chainEvent[w] = "none"
  /\ watchers[w].running
  /\ chainEvent' = [chainEvent EXCEPT ![w] = IF Delivering(w) THEN "queued" ELSE "history"]
  /\ UNCHANGED << ctxDone, sharedErr, watchers, restorePending, watchErrors, laneVars,
                  balVars, raceVars, muVars, vrVars, opVars >>

\* PollRPCConnection's `case issueTime := <-ConnectionIssue()` while the watchers run:
\* the subscriptions of the chain lose their connection, and what they had not yet
\* delivered stays in the chain's log alone
ConnectionLost(c) ==
  /\ ~ctxDone
  /\ IsConnectionRestoredRecently' = [IsConnectionRestoredRecently EXCEPT ![c] = "false"]
  /\ watchers' = [w \in Watchers |->
       IF WatcherChain(w) = c THEN [watchers[w] EXCEPT !.healthy = FALSE] ELSE watchers[w]]
  /\ chainEvent' = [w \in Watchers |->
       IF WatcherChain(w) = c /\ chainEvent[w] = "queued" THEN "history" ELSE chainEvent[w]]
  /\ restorePending' = [w \in Watchers |-> WatcherChain(w) # c /\ restorePending[w]]
  /\ UNCHANGED << ctxDone, sharedErr, watchErrors, storeVars, ARM, chain, wallClock, valVars,
                  balVars, raceVars, muVars, vrVars, opVars >>

\* PollRPCConnection's `case reconnectTime := <-ConnectionRestored()` while the watchers
\* run
ConnectionBack(c) ==
  /\ ~ctxDone
  /\ IsConnectionRestoredRecently' = [IsConnectionRestoredRecently EXCEPT ![c] = "true"]
  /\ restorePending' = [w \in Watchers |->
       IF WatcherChain(w) = c /\ watchers[w].running
         THEN restorePending[w] \/ IsConnectionRestoredRecently[c] = "false"
         ELSE restorePending[w]]
  /\ UNCHANGED << ctxDone, sharedErr, watchers, chainEvent, watchErrors, storeVars, ARM, chain,
                  wallClock, valVars, balVars, raceVars, muVars, vrVars, opVars >>

\* the cancel function of lane.Context
CancelContext ==
  /\ ~ctxDone
  /\ ctxDone' = TRUE
  /\ UNCHANGED << sharedErr, watchers, chainEvent, restorePending, watchErrors, laneVars,
                  balVars, raceVars, muVars, vrVars, opVars >>

InitWatch ==
  /\ ctxDone = FALSE
  /\ sharedErr = "nil"
  /\ watchers = [w \in Watchers |->
       IF w \in StartedWatchers(ARM) THEN StartedWatcher ELSE NotStarted]
  /\ chainEvent = [w \in Watchers |-> "none"]
  /\ restorePending = [w \in Watchers |-> FALSE]
  /\ watchErrors = 0

(***************************************************************************)
(* Two goroutines in AssertEventExecutionStateChanged for the same         *)
(* sequence number (ValidateRequestByTxHash, and the wait ExecuteManually  *)
(* issues).  A tick is two calls on the sync.Map, Load and then Delete,    *)
(* and the other goroutine may run between them.                           *)
(***************************************************************************)
Racers == {"g1", "g2"}
RaceSeq == 1
NoEvent == ExecutionStateChangedEvent(0, 0)

\* `value, ok := destCCIP.ExecStateChangedWatcher.Load(seqNum)` with `ok && value != nil`
RaceLoad(g) ==
  /\ racers[g].pc = "tick"
  /\ Has(ExecStateChangedWatcher, RaceSeq)
  /\ racers' = [racers EXCEPT ![g].pc = "loaded", ![g].value = ExecStateChangedWatcher[RaceSeq]]
  /\ UNCHANGED << nonRaceVars, raceStored >>

\* `destCCIP.ExecStateChangedWatcher.Delete(seqNum)` and the rest of the tick
RaceDelete(g) ==
  /\ racers[g].pc = "loaded"
  /\ ExecStateChangedWatcher' = Delete(ExecStateChangedWatcher, RaceSeq)
  /\ racers' = [racers EXCEPT ![g].pc =
       IF racers[g].value.State = ExpectedExecState THEN "Success" ELSE "Failure"]
  /\ UNCHANGED << CCIPSendRequestedWatcher, ReportAcceptedWatcher, ReportBlessedWatcher,
                  ReportBlessedBySeqNum, envVars, valVars, balVars, muVars, watchVars, vrVars, opVars,
                  raceStored >>

\* `case <-timer.C:` of the goroutine
RaceTimeout(g) ==
  /\ racers[g].pc = "tick"
  /\ LET outcome == TimerExpired("dst", racers[g].resetTimer) IN
       racers' = IF outcome = "reset"
                   THEN [racers EXCEPT ![g].resetTimer = @ + 1]
                   ELSE [racers EXCEPT ![g].pc = "Failure"]
  /\ UNCHANGED << nonRaceVars, raceStored >>

\* the ExecutionStateChanged callback stores the event of the sequence number
RaceOnExecutionStateChanged(st) ==
  /\ raceStored < MaxRaceStores
  /\ raceStored' = raceStored + 1
  /\ ExecStateChangedWatcher' =
       ExecutionStateChangedCallback(ExecStateChangedWatcher,
                                     ExecutionStateChangedEvent(RaceSeq, st))
  /\ UNCHANGED << CCIPSendRequestedWatcher, ReportAcceptedWatcher, ReportBlessedWatcher,
                  ReportBlessedBySeqNum, envVars, valVars, balVars, muVars, watchVars, vrVars, opVars,
                  racers >>

\* time.Now() moves on
AdvanceClock ==
  /\ wallClock < MaxTime
  /\ wallClock' = wallClock + 1
  /\ UNCHANGED << storeVars, IsConnectionRestoredRecently, ARM, chain, valVars, otherVars >>

(***************************************************************************)
(* Initial states and specifications                                       *)
(***************************************************************************)
\* NewBalanceSheet
InitBalance ==
  /\ Items = EmptyMap
  /\ PrevBalance = EmptyMap
  /\ firstRecorded = [k \in Keys |-> [first |-> NilInt, last |-> NilInt]]
  /\ sumAdd = [k \in Keys |-> 0]
  /\ sumSub = [k \in Keys |-> 0]
  /\ nOps = 0
  /\ verifyResult = NotVerified

\* the lane after DefaultSourceCCIPModule / DefaultDestinationCCIPModule and
\* StartEventWatchers, the requests of the transaction sent, for a commit interval iv, a
\* real ARM contract or none, and block timestamps hdr
InitLane(iv, arm, hdr) ==
  /\ CCIPSendRequestedWatcher = EmptyMap
  /\ ReportAcceptedWatcher = EmptyMap
  /\ ReportBlessedWatcher = EmptyMap
  /\ ReportBlessedBySeqNum = EmptyMap
  /\ ExecStateChangedWatcher = EmptyMap
  /\ IsConnectionRestoredRecently = [c \in Chains |-> "nil"]
  /\ NextSeqNumToCommit = InitialNextSeqNum
  /\ ARM = arm
  /\ chain = [interval |-> iv, nextSeq |-> 1, hdr |-> hdr]
  /\ wallClock = 0
  /\ pc = "idle"
  /\ resetTimer = 0
  /\ msgLogs = << >>
  /\ cur = 1
  /\ stats = [r \in Reqs |-> NewRequestStat]
  /\ sourceLogFinalizedAt = 0
  /\ commitReport = NoReport
  /\ reportAcceptedAt = 0
  /\ reportBlessedAt = 0
  /\ lastErr = "none"
  /\ returned = [r \in Reqs |-> {}]
  /\ expiries = 0
  /\ sawIssue = TRUE
  /\ failedAt = "none"
  /\ outage = FALSE

\* every block carries the same timestamp
FrozenTime == [tx |-> 0, fin |-> 0, ra |-> 0, rb |-> 0, ex |-> 0]

\* ValidateRequests(succ) is called with n transactions in SentReqs after the first
InitValidateRequests(succ, n) ==
  /\ successfulExecution = succ
  /\ validateRequests = "validating"
  /\ txLeft = n

InitGoroutines ==
  /\ racers = [g \in Racers |-> [pc |-> "tick", value |-> NoEvent, resetTimer |-> 0]]
  /\ raceStored = 0
  /\ InitMu
  /\ InitWatch

(***************************************************************************)
(* DestCCIPModule.AssertSeqNumberExecuted called by several goroutines at  *)
(* the same time: the Load of NextSeqNumToCommit, the call of the commit   *)
(* store and the Store are separate steps of a goroutine.                  *)
(***************************************************************************)
\* the goroutines, each with the RequestStat of the request of its number
SeqGoroutines == {1, 2}
NotWaiting == [pc |-> "idle", seqNumberBefore |-> 0, seqNumberAfter |-> 0, timeNow |-> 0,
               resetTimerCount |-> 0]

\* SeqNumberIncreased with `>=`
SeqNumberNotBefore(seqNumberAfter, seqNumberBefore) == seqNumberAfter >= seqNumberBefore

\* `if seqNumberAfter > seqNumberBefore`
SeqNumberIncreased(seqNumberAfter, seqNumberBefore) == seqNumberAfter > seqNumberBefore

\* a goroutine calls AssertSeqNumberExecuted for its request
SeqWaitBegin(g, seqNumberBefore) ==
  /\ seqWaiters[g].pc = "idle"
  /\ seqWaiters' = [seqWaiters EXCEPT ![g] =
       [NotWaiting EXCEPT !.pc = "select", !.seqNumberBefore = seqNumberBefore,
                          !.timeNow = wallClock]]
  /\ UNCHANGED << seqReads, NextSeqNumToCommit, stats, nonSeqVars >>

\* `case <-ticker.C: if destCCIP.NextSeqNumToCommit.Load() > seqNumberBefore { return nil }`
SeqWaitTick(g) ==
  /\ seqWaiters[g].pc = "select"
  /\ seqWaiters' = [seqWaiters EXCEPT ![g].pc =
       IF NextSeqNumToCommit > seqWaiters[g].seqNumberBefore THEN "nil" ELSE "call"]
  /\ UNCHANGED << seqReads, NextSeqNumToCommit, stats, nonSeqVars >>

\* `seqNumberAfter, err := GetExpectedNextSequenceNumber(nil)`, with `continue` for an
\* error and for a number that is not greater
SeqWaitCall(g, rpcOk) ==
  /\ seqWaiters[g].pc = "call"
  /\ IF rpcOk
       THEN /\ seqWaiters' = [seqWaiters EXCEPT
                 ![g].seqNumberAfter = chain.nextSeq,
                 ![g].pc = IF SeqNumberIncreased(chain.nextSeq, seqWaiters[g].seqNumberBefore)
                             THEN "store" ELSE "select"]
            /\ seqReads' = seqReads \cup {chain.nextSeq}
       ELSE /\ seqWaiters' = [seqWaiters EXCEPT ![g].pc = "select"]
            /\ UNCHANGED seqReads
  /\ UNCHANGED << NextSeqNumToCommit, stats, nonSeqVars >>

\* `destCCIP.NextSeqNumToCommit.Store(seqNumberAfter); return nil`
SeqWaitStore(g) ==
  /\ seqWaiters[g].pc = "store"
  /\ NextSeqNumToCommit' = seqWaiters[g].seqNumberAfter
  /\ seqWaiters' = [seqWaiters EXCEPT ![g].pc = "nil"]
  /\ UNCHANGED << seqReads, stats, nonSeqVars >>

\* `case <-timer.C:`
SeqWaitTimeout(g) ==
  /\ seqWaiters[g].pc = "select"
  /\ IF TimerExpired("dst", seqWaiters[g].resetTimerCount) = "reset"
       THEN /\ seqWaiters' = [seqWaiters EXCEPT ![g].resetTimerCount = @ + 1]
            /\ UNCHANGED stats
       ELSE /\ seqWaiters' = [seqWaiters EXCEPT ![g].pc = "failed"]
            /\ stats' = [stats EXCEPT ![g] =
                 UpdateState(@, seqWaiters[g].seqNumberBefore, "Commit",
                             Since(seqWaiters[g].timeNow), "Failure")]
  /\ UNCHANGED << seqReads, NextSeqNumToCommit, nonSeqVars >>

\* the lane's other operations have not been called, but for those named in own
InitOps(own) ==
  /\ IF "noReport" \in own THEN TRUE
       ELSE noReport = [pc |-> "idle", lastSeenTimestamp |-> 0, held |-> FALSE]
  /\ IF "send" \in own THEN TRUE
       ELSE /\ lane = [NumberOfReq |-> 0, TotalFee |-> 0, SentReqs |-> << >>]
            /\ lastCall = [op |-> "none", err |-> "none", reqStats |-> << >>]
            /\ totals = [sent |-> 0, fees |-> 0, validated |-> TRUE]
  /\ IF "seq" \in own THEN TRUE
       ELSE /\ seqWaiters = [g \in SeqGoroutines |-> NotWaiting]
            /\ seqReads = {}
  /\ IF "json" \in own THEN TRUE
       ELSE json = [type |-> "none", receiver |-> << >>, data |-> << >>,
                    result |-> << >>, err |-> "none"]

InitRace ==
  /\ InitGoroutines
  /\ InitValidateRequests(TRUE, 0)
  /\ InitOps({})

(***************************************************************************)
(* CCIPLane.ValidateRequests: ValidateRequestByTxHash for every            *)
(* transaction of SentReqs, each under require.NoError, then the ledger's  *)
(* updates.                                                                *)
(***************************************************************************)
\* lane.Source.TransferAmount[0] and lane.TotalFee
TransferAmount == 1
TotalFee == 1

\* BalanceUpdated without `if !successfulExecution { return }`
BalanceUpdatedWhateverTheOutcome(succ, hasTransfer) == hasTransfer

\* `if !successfulExecution { return }` and `if len(lane.Source.TransferAmount) > 0`
BalanceUpdated(succ, hasTransfer) == succ /\ hasTransfer

\* SourceCCIPModule.UpdateBalance: the sender's bridge token and the onRamp's fee token
\* SourceCCIPModule.UpdateBalance(noOfReq, totalFee, balances): the sender's bridge
\* token and the OnRamp's fee token
SourceUpdateBalance(items, noOfReq, totalFee) ==
  UpdateItems(
    UpdateItems(items, "BridgeToken-Sender",
                [AmtToAdd |-> NilInt, AmtToSub |-> BigInt(noOfReq * TransferAmount)]),
    "FeeToken-OnRamp", [AmtToAdd |-> BigInt(totalFee), AmtToSub |-> NilInt])

UpdateBalance(items) == SourceUpdateBalance(items, NumReq, TotalFee)

\* `for txHash, ccipReqs := range lane.SentReqs`: ValidateRequestByTxHash has returned nil
\* and the loop goes on to the next transaction, whose events and requests are new
NextTransaction ==
  /\ validateRequests = "validating"
  /\ pc = "done"
  /\ txLeft > 0
  /\ txLeft' = txLeft - 1
  /\ CCIPSendRequestedWatcher' = EmptyMap
  /\ ReportAcceptedWatcher' = EmptyMap
  /\ ReportBlessedWatcher' = EmptyMap
  /\ ReportBlessedBySeqNum' = EmptyMap
  /\ ExecStateChangedWatcher' = EmptyMap
  /\ NextSeqNumToCommit' = InitialNextSeqNum
  /\ chain' = [chain EXCEPT !.nextSeq = 1]
  /\ pc' = "idle"
  /\ resetTimer' = 0
  /\ msgLogs' = << >>
  /\ cur' = 1
  /\ stats' = [r \in Reqs |-> NewRequestStat]
  /\ sourceLogFinalizedAt' = 0
  /\ commitReport' = NoReport
  /\ reportAcceptedAt' = 0
  /\ reportBlessedAt' = 0
  /\ lastErr' = "none"
  /\ returned' = [r \in Reqs |-> {}]
  /\ expiries' = 0
  /\ sawIssue' = TRUE
  /\ failedAt' = "none"
  /\ outage' = FALSE
  /\ UNCHANGED << IsConnectionRestoredRecently, ARM, wallClock, successfulExecution,
                  validateRequests, balVars, raceVars, muVars, watchVars, opVars >>

\* `require.NoError(lane.Test, lane.ValidateRequestByTxHash(txHash, execState), ...)` with an
\* error: the test fails now
ValidateRequestsFailed ==
  /\ validateRequests = "validating"
  /\ pc = "failed"
  /\ validateRequests' = "failed"
  /\ UNCHANGED << successfulExecution, txLeft, laneVars, balVars, raceVars, muVars,
                  watchVars, opVars >>

\* the loop over SentReqs is over: the return, or the ledger's updates
ValidateRequestsEnd(hasTransfer) ==
  /\ validateRequests = "validating"
  /\ pc = "done"
  /\ txLeft = 0
  /\ IF BalanceUpdated(successfulExecution, hasTransfer)
       THEN /\ Items' = UpdateBalance(Items)
            /\ validateRequests' = "updated"
       ELSE /\ validateRequests' = "returned"
            /\ UNCHANGED Items
  /\ UNCHANGED << successfulExecution, txLeft, PrevBalance, firstRecorded, sumAdd, sumSub,
                  nOps, verifyResult, laneVars, raceVars, muVars, watchVars, opVars >>

(***************************************************************************)
(* CCIPLane.ExecuteManually, called once ValidateRequests has returned:    *)
(* for every request of SentReqs the manual execution on the destination   *)
(* chain, then a second AssertEventExecutionStateChanged for the request's *)
(* RequestStat, expecting ExecutionStateSuccess.  pc is "ExecuteManually"  *)
(* during the wait for the request cur, "executed" after the return of     *)
(* nil, "executeFailed" after the return of an error.                      *)
(***************************************************************************)
\* `seqNum := ccipReq.RequestStat.SeqNum`
ManualSeqNum == stats[cur].SeqNum

\* the head of `for _, ccipReq := range req` for the request k: the commit phase is
\* looked up in StatusByPhase, the execution is mined, and the wait begins
ManualLoopHead(k) ==
  IF k > NumReq
    THEN pc' = "executed"
    ELSE IF stats[k].StatusByPhase["Commit"] = "Pending"
           THEN pc' = "executeFailed"
           ELSE pc' = "ExecuteManually"

ExecuteManually ==
  /\ validateRequests \in {"returned", "updated"}
  /\ pc = "done"
  /\ cur' = 1
  /\ resetTimer' = 0
  /\ ManualLoopHead(1)
  /\ UNCHANGED << storeVars, envVars, NextSeqNumToCommit, msgLogs, stats,
                  sourceLogFinalizedAt, commitReport, reportAcceptedAt, reportBlessedAt,
                  lastErr, returned, expiries, sawIssue, failedAt, outage, otherVars >>

\* the ExecutionStateChanged event of the manual execution reaches the watcher's callback
ManualExecutionStateChanged(st) ==
  /\ pc = "ExecuteManually"
  /\ OnExecutionStateChanged(ManualSeqNum, st)

\* the wait of ExecuteManually finds the event: `timeNow` is the time of the call, and
\* the clock does not advance during the wait
ExecuteManuallyFound(hdrOk) ==
  /\ pc = "ExecuteManually"
  /\ Has(ExecStateChangedWatcher, ManualSeqNum)
  /\ LET e == ExecStateChangedWatcher[ManualSeqNum]
         receivedAt == ReceivedAt(hdrOk, chain.hdr.ex)
     IN /\ ExecStateChangedWatcher' = Delete(ExecStateChangedWatcher, ManualSeqNum)
        /\ IF e.State = ExecutionStateSuccess
             THEN /\ stats' = [stats EXCEPT ![cur] =
                       UpdateState(@, ManualSeqNum, "ExecStateChanged",
                                   receivedAt - wallClock, "Success")]
                  /\ cur' = cur + 1
                  /\ resetTimer' = 0
                  /\ ManualLoopHead(cur + 1)
             ELSE /\ stats' = [stats EXCEPT ![cur] =
                       UpdateState(@, ManualSeqNum, "ExecStateChanged",
                                   Since(wallClock), "Failure")]
                  /\ pc' = "executeFailed"
                  /\ UNCHANGED << cur, resetTimer >>
  /\ UNCHANGED << CCIPSendRequestedWatcher, ReportAcceptedWatcher, ReportBlessedWatcher,
                  ReportBlessedBySeqNum, envVars, NextSeqNumToCommit, msgLogs,
                  sourceLogFinalizedAt, commitReport, reportAcceptedAt, reportBlessedAt,
                  lastErr, returned, expiries, sawIssue, failedAt, outage, otherVars >>

\* `case <-timer.C:` of the wait of ExecuteManually
ExecuteManuallyTimeout ==
  /\ pc = "ExecuteManually"
  /\ LET outcome == TimerExpired("dst", resetTimer) IN
       IF outcome = "reset"
         THEN /\ resetTimer' = resetTimer + 1
              /\ UNCHANGED << pc, stats >>
         ELSE /\ stats' = [stats EXCEPT ![cur] =
                   UpdateState(@, ManualSeqNum, "ExecStateChanged", Since(wallClock),
                               "Failure")]
              /\ pc' = "executeFailed"
              /\ UNCHANGED resetTimer
  /\ UNCHANGED << storeVars, envVars, NextSeqNumToCommit, msgLogs, cur,
                  sourceLogFinalizedAt, commitReport, reportAcceptedAt, reportBlessedAt,
                  lastErr, returned, expiries, sawIssue, failedAt, outage, otherVars >>

(***************************************************************************)
(* CCIPLane.SendRequests, Multicall and AddToSentReqs.  A request is its   *)
(* ReqNo and its RequestStat; a call is one step, its RPC results being    *)
(* the inputs: the call that fails (none for 0), and how.                  *)
(***************************************************************************)
\* testreporters.NewCCIPRequestStats(reqNo, ...) as the CCIPRequest made of it
NewCCIPRequest(reqNo) == [ReqNo |-> reqNo, RequestStat |-> NewRequestStat]

\* `stat.UpdateState(lane.Logger, 0, testreporters.TX, 0, state)`
TxState(req, state) == [req EXCEPT !.RequestStat = UpdateState(@, 0, "TX", 0, state)]

\* what Multicall does to the batch when contracts.MultiCallCCIP returns an error: the
\* first `if err != nil` returns, the second, which would record the failures, is never
\* reached
MulticallSendFailed(reqStats) == reqStats

\* lane.AddToSentReqs for a receipt that is found
AddToSentReqs(l, reqs) ==
  [l EXCEPT !.SentReqs = Append(@, reqs), !.NumberOfReq = @ + Len(reqs)]

\* the errors of Multicall: Router.GetFee for the message failAt, MultiCallCCIP,
\* CCIPRequestFromTxHash in AddToSentReqs
MulticallErrors == {"fee", "send", "receipt"}

Multicall(noOfRequests, fee, failAt, err) ==
  /\ totals.sent + noOfRequests <= MaxSent
  /\ totals.fees + noOfRequests * fee <= MaxSent * MaxAmt
  /\ LET reqStats == [i \in 1..noOfRequests |-> NewCCIPRequest(lane.NumberOfReq + i)]
         feesAdded == IF failAt > 0 /\ err = "fee" THEN (failAt - 1) * fee
                      ELSE noOfRequests * fee
         withFees == [lane EXCEPT !.TotalFee = @ + feesAdded]
     IN IF failAt = 0
          THEN LET sent == [i \in 1..noOfRequests |-> TxState(reqStats[i], "Success")]
               IN /\ lane' = AddToSentReqs(withFees, sent)
                  /\ lastCall' = [op |-> "Multicall", err |-> "none", reqStats |-> sent]
                  /\ totals' = [sent |-> totals.sent + noOfRequests,
                                fees |-> totals.fees + feesAdded, validated |-> FALSE]
          ELSE /\ lane' = withFees
               /\ lastCall' =
                    [op |-> "Multicall", err |-> err,
                     reqStats |->
                       CASE err = "fee" -> SubSeq(reqStats, 1, failAt - 1)
                         [] err = "send" -> MulticallSendFailed(reqStats)
                         [] err = "receipt" ->
                              [i \in 1..noOfRequests |-> TxState(reqStats[i], "Failure")]]
               /\ totals' = [totals EXCEPT !.fees = @ + feesAdded]
  /\ UNCHANGED << balVars, nonSendVars >>

\* the errors of SendRequests: Source.SendRequest, WaitForEvents, CCIPRequestFromTxHash
SendErrors == {"send", "events", "receipt"}

RECURSIVE SendLoop(_, _, _, _, _, _)
\* `for i := 1; i <= noOfRequests; i++` from i on, for the lane l and the requests made
\* so far: the lane and the requests at the return
SendLoop(l, made, i, noOfRequests, fee, failAt) ==
  IF i > noOfRequests
    THEN [lane |-> l, reqStats |-> made]
    ELSE LET stat == NewCCIPRequest(l.NumberOfReq + i)
         IN IF i = failAt
              THEN [lane |-> l, reqStats |-> Append(made, TxState(stat, "Failure"))]
              ELSE SendLoop([AddToSentReqs(l, << TxState(stat, "Success") >>)
                               EXCEPT !.TotalFee = @ + fee],
                            Append(made, TxState(stat, "Success")), i + 1, noOfRequests,
                            fee, failAt)

SendRequests(noOfRequests, fee, failAt, err) ==
  /\ totals.sent + noOfRequests <= MaxSent
  /\ LET r == SendLoop(lane, << >>, 1, noOfRequests, fee, failAt)
         n == r.lane.NumberOfReq - lane.NumberOfReq
     IN /\ lane' = r.lane
        /\ lastCall' = [op |-> "SendRequests", err |-> IF failAt = 0 THEN "none" ELSE err,
                        reqStats |-> r.reqStats]
        /\ totals' = [sent |-> totals.sent + n, fees |-> totals.fees + n * fee,
                      validated |-> totals.validated /\ n = 0]
  /\ UNCHANGED << balVars, nonSendVars >>

\* CCIPLane.RecordStateBeforeTransfer, for the balances testhelpers.GetBalances returns
\* for the source and for the destination chain
\* the lane's counts as the round before left them
LaneNotReset == lane

\* `lane.TotalFee = big.NewInt(0)`, `lane.NumberOfReq = 0`, `lane.SentReqs = make(...)`
LaneReset == [NumberOfReq |-> 0, TotalFee |-> 0, SentReqs |-> << >>]

RecordStateBeforeTransfer(srcBal, dstBal) ==
  /\ PrevBalance' = RecordPrevBalance(RecordPrevBalance(PrevBalance, srcBal), dstBal)
  /\ firstRecorded' = [k \in Keys |->
       LET bal == IF Has(srcBal, k) THEN srcBal ELSE dstBal IN
       IF Has(bal, k)
         THEN [first |-> IF IsNil(firstRecorded[k].first) THEN BigInt(bal[k])
                         ELSE firstRecorded[k].first,
               last |-> BigInt(bal[k])]
         ELSE firstRecorded[k]]
  /\ lane' = LaneReset
  /\ lastCall' = [op |-> "RecordStateBeforeTransfer", err |-> "none", reqStats |-> << >>]
  /\ UNCHANGED << totals, Items, sumAdd, sumSub, nOps, verifyResult, nonSendVars >>

(***************************************************************************)
(* DestCCIPModule.AssertNoReportAcceptedEventReceived: every second, until *)
(* timeRange is over, a Range over ReportAcceptedWatcher.                  *)
(***************************************************************************)
\* `e, exists := value.(*evm_2_evm_offramp.EVM2EVMOffRampExecutionStateChanged)`: the
\* value is an ExecutionStateChanged event (it has a State), not a ReportAccepted one
IsExecutionStateChanged(value) == "State" \in DOMAIN value

\* the Range callback over the store m, the header of an entry's block being had for
\* the keys in okKeys: eventFoundAfterCursing != nil
EventFoundAfterCursing(m, okKeys, lastSeenTimestamp) ==
  \E key \in DOMAIN m :
     /\ IsExecutionStateChanged(m[key])
     /\ key \in okKeys
     /\ chain.hdr.ra > lastSeenTimestamp

AssertNoReportAcceptedEventReceived(lastSeenTimestamp) ==
  /\ noReport.pc = "idle"
  /\ noReport' = [pc |-> "ticking", lastSeenTimestamp |-> lastSeenTimestamp,
                  held |-> FALSE]
  /\ UNCHANGED nonNoReportVars

\* `case <-ticker.C:`
NoReportTick(okKeys) ==
  /\ noReport.pc = "ticking"
  /\ noReport' =
       [noReport EXCEPT
          !.pc = IF EventFoundAfterCursing(ReportAcceptedWatcher, okKeys,
                                           noReport.lastSeenTimestamp)
                   THEN "error" ELSE "ticking",
          !.held = @ \/ (/\ ReportAcceptedWatcher # EmptyMap
                         /\ chain.hdr.ra > noReport.lastSeenTimestamp)]
  /\ UNCHANGED nonNoReportVars

\* `case <-ctx.Done():`
NoReportDone ==
  /\ noReport.pc = "ticking"
  /\ noReport' = [noReport EXCEPT !.pc = "nil"]
  /\ UNCHANGED nonNoReportVars

Init ==
  /\ \E iv \in Intervals, arm \in BOOLEAN : InitLane(iv, arm, FrozenTime)
  /\ InitBalance
  /\ InitRace

\* The deliveries the model schedules.  A store is written by its callback alone and
\* read by one wait alone, so a delivery made before that wait began leaves the store as a
\* delivery made at its beginning does: the send-requested, report-accepted and
\* execution-state-changed events, and the commit store's progress, are delivered from
\* the moment their wait runs (the send-requested events also before the validation
\* starts); the blessing is delivered at any time.  A connectivity flag is read at the
\* timeout of a wait on its chain alone, so PollRPCConnection's events are delivered
\* while such a wait runs.
Scheduled(w) == pc = w
\* a wait is running that consults the flag of the chain c at its timeout
Consulted(c) == pc \in TimedWaits /\ ChainOf(pc) = c

\* the steps of the validation, and the deliveries made for the wait in progress
LaneSteps ==
  \/ /\ Scheduled("idle") \/ Scheduled("AssertEventCCIPSendRequested")
     /\ \E s \in ReqSeqNums : OnCCIPSendRequested(s)
  \/ /\ Scheduled("AssertEventReportAccepted")
     /\ OnReportAccepted
  \/ /\ Scheduled("AssertEventExecutionStateChanged")
     /\ \E st \in ExecStates : OnExecutionStateChanged(CurSeq, st)
  \/ /\ Scheduled("AssertSeqNumberExecuted")
     /\ CommitStoreAdvance
  \/ ValidateRequestByTxHash
  \/ AssertEventCCIPSendRequested
  \/ \E finalized \in BOOLEAN : AssertSendRequestedLogFinalized(finalized)
  \/ AssertSeqNumberExecuted
  \/ \E hdrOk \in BOOLEAN : AssertEventReportAccepted(hdrOk)
  \/ AssertReportBlessedSkipped
  \/ \E hdrOk \in BOOLEAN : AssertReportBlessed(hdrOk)
  \/ \E hdrOk \in BOOLEAN : AssertEventExecutionStateChanged(hdrOk)
  \/ Timeout

Next ==
  \/ \E c \in Chains : Consulted(c) /\ ConnectionRestored(c)
  \/ \E c \in Chains : Consulted(c) /\ ConnectionIssue(c)
  \/ \E own \in BOOLEAN : OnTaggedRootBlessed(own)
  \/ LaneSteps

Spec == Init /\ [][Next]_vars

\* the timer of the wait in progress fires: its `case <-timer.C:` is taken if it stays
\* ready
\* (one commit report covers the requests of the transaction)
InitLive ==
  /\ \E arm \in BOOLEAN : InitLane(<< 1, NumReq >>, arm, FrozenTime)
  /\ InitBalance
  /\ InitRace

SpecLive == InitLive /\ [][Next]_vars /\ WF_vars(Timeout)

InitBal ==
  /\ InitLane(<< 1, MaxSeq >>, TRUE, FrozenTime)
  /\ InitBalance
  /\ InitRace

NextBal ==
  \/ \E k \in Keys, item \in BalanceItems : Update(k, item)
  \/ \E bal \in Snapshots : RecordBalance(bal)
  \/ \E actual \in [Keys -> ActualBalances] : Verify(actual)

SpecBal == InitBal /\ [][NextBal]_vars

\* the goroutines each make one call on the sheet
NextMu ==
  \/ \E g \in Goroutines, op \in UpdateCalls \cup RecordBalanceCalls : MuCall(g, op)
  \/ \E g \in Goroutines : MuLock(g)
  \/ \E g \in Goroutines : MuRead(g)
  \/ \E g \in Goroutines : MuWrite(g)

SpecMu == InitBal /\ [][NextMu]_vars

\* the goroutines' calls and, at any moment, the test's call of Verify, which takes no
\* lock
NextVerify ==
  \/ NextMu
  \/ \E actual \in [Keys -> ActualBalances] : Verify(actual)

SpecVerify == InitBal /\ [][NextVerify]_vars

\* The watcher goroutines alone, with PollRPCConnection and the cancellation of the
\* lane's context.
NextWatch ==
  \/ \E w \in Watchers, ok \in BOOLEAN : WatcherPoll(w, ok)
  \/ \E w \in Watchers : WatcherCheckErr(w)
  \/ \E w \in Watchers : WatcherDone(w)
  \/ \E c \in Chains : ConnectionLost(c)
  \/ \E c \in Chains : ConnectionBack(c)
  \/ CancelContext

SpecWatch == InitLive /\ [][NextWatch]_vars

\* The watchers of the events that the code resubscribes to with its remembered start
\* blocks, one on each chain, with the events their chains emit.  The goroutines are
\* scheduled fairly, and a cancelled context is eventually seen.
ReplayWatchers == {"CCIPSendRequested", "ExecutionStateChanged"}

NextReplay ==
  \/ \E w \in ReplayWatchers, ok \in BOOLEAN : WatcherPoll(w, ok)
  \/ \E w \in ReplayWatchers : WatcherCheckErr(w)
  \/ \E w \in ReplayWatchers : WatcherReceive(w)
  \/ \E w \in ReplayWatchers : WatcherDone(w)
  \/ \E w \in ReplayWatchers : EmitEvent(w)
  \/ \E c \in Chains : ConnectionLost(c)
  \/ \E c \in Chains : ConnectionBack(c)
  \/ CancelContext

ReplayFairness ==
  \A w \in ReplayWatchers :
    /\ WF_vars(\E ok \in BOOLEAN : WatcherPoll(w, ok))
    /\ WF_vars(WatcherCheckErr(w))
    /\ WF_vars(WatcherReceive(w))
    /\ WF_vars(WatcherDone(w))

SpecReplay == InitLive /\ [][NextReplay]_vars /\ ReplayFairness

\* The validation of the lane's requests while the lane's context can be cancelled.
NextCancel ==
  \/ Next
  \/ CancelContext

SpecCancel == InitLive /\ [][NextCancel]_vars

\* ValidateRequests over the transactions of SentReqs, for either expected outcome.
InitRequests ==
  /\ \E arm \in BOOLEAN : InitLane(<< 1, NumReq >>, arm, FrozenTime)
  /\ InitBalance
  /\ InitGoroutines
  /\ InitOps({})
  /\ \E succ \in BOOLEAN : InitValidateRequests(succ, MaxTxs - 1)

NextRequests ==
  \/ Next
  \/ NextTransaction
  \/ ValidateRequestsFailed
  \/ \E hasTransfer \in BOOLEAN : ValidateRequestsEnd(hasTransfer)

SpecRequests == InitRequests /\ [][NextRequests]_vars

\* ValidateRequests for one transaction, then ExecuteManually.
InitManual ==
  /\ \E arm \in BOOLEAN : InitLane(<< 1, NumReq >>, arm, FrozenTime)
  /\ InitBalance
  /\ InitGoroutines
  /\ InitOps({})
  /\ \E succ \in BOOLEAN : InitValidateRequests(succ, 0)

NextManual ==
  \/ Next
  \/ ValidateRequestsFailed
  \/ \E hasTransfer \in BOOLEAN : ValidateRequestsEnd(hasTransfer)
  \/ ExecuteManually
  \/ \E st \in ExecStates : ManualExecutionStateChanged(st)
  \/ \E hdrOk \in BOOLEAN : ExecuteManuallyFound(hdrOk)
  \/ ExecuteManuallyTimeout

SpecManual == InitManual /\ [][NextManual]_vars

\* The goroutines in AssertSeqNumberExecuted while the commit store advances; the flag
\* of the destination chain is unset until a ConnectionIssue.
InitSeq ==
  /\ InitLane(<< 1, NumReq >>, TRUE, FrozenTime)
  /\ InitBalance
  /\ InitRace

NextSeq ==
  \/ \E g \in SeqGoroutines, seqNumberBefore \in SeqNums : SeqWaitBegin(g, seqNumberBefore)
  \/ \E g \in SeqGoroutines : SeqWaitTick(g)
  \/ \E g \in SeqGoroutines, rpcOk \in BOOLEAN : SeqWaitCall(g, rpcOk)
  \/ \E g \in SeqGoroutines : SeqWaitStore(g)
  \/ \E g \in SeqGoroutines : SeqWaitTimeout(g)
  \/ CommitStoreAdvance
  \/ IsConnectionRestoredRecently["dst"] = "nil" /\ ConnectionIssue("dst")

SpecSeq == InitSeq /\ [][NextSeq]_vars

\* Calls of SendRequests and Multicall, with and without errors, and of
\* RecordStateBeforeTransfer between them.
NextSend ==
  \/ \E n \in 1..MaxBatch, fee \in Amounts, failAt \in 0..MaxBatch, err \in MulticallErrors :
       /\ failAt <= n
       /\ failAt = 0 => err = "fee"
       /\ Multicall(n, fee, failAt, err)
  \/ \E n \in 1..MaxBatch, fee \in Amounts, failAt \in 0..MaxBatch, err \in SendErrors :
       /\ failAt <= n
       /\ failAt = 0 => err = "send"
       /\ SendRequests(n, fee, failAt, err)
  \/ /\ lane.NumberOfReq > 0
     /\ \E srcBal \in [Keys -> Amounts] : RecordStateBeforeTransfer(srcBal, EmptyMap)

SpecSend == Init /\ [][NextSend]_vars

\* ValidateRequests(true) of a lane with transfer amounts, every ValidateRequestByTxHash
\* of SentReqs having returned nil: the source side of the balance update
ValidateRequestsSucceeded ==
  /\ lastCall.op \in {"RecordStateBeforeTransfer", "Multicall", "SendRequests"}
  /\ Items' = SourceUpdateBalance(Items, lane.NumberOfReq, lane.TotalFee)
  /\ lastCall' = [op |-> "ValidateRequests", err |-> "none", reqStats |-> << >>]
  /\ totals' = [totals EXCEPT !.validated = TRUE]
  /\ UNCHANGED << lane, PrevBalance, firstRecorded, sumAdd, sumSub, nOps, verifyResult,
                  nonSendVars >>

\* rounds of a test: RecordStateBeforeTransfer, requests sent without error by
\* SendRequests or Multicall, ValidateRequests
SendingRound == lastCall.op \in {"RecordStateBeforeTransfer", "Multicall", "SendRequests"}

NextRounds ==
  \/ /\ ~SendingRound
     /\ \E srcBal \in [Keys -> Amounts] : RecordStateBeforeTransfer(srcBal, EmptyMap)
  \/ /\ SendingRound
     /\ \E n \in 1..MaxBatch, fee \in Amounts : Multicall(n, fee, 0, "fee")
  \/ /\ SendingRound
     /\ \E n \in 1..MaxBatch, fee \in Amounts : SendRequests(n, fee, 0, "send")
  \/ ValidateRequestsSucceeded

SpecRounds == InitBal /\ [][NextRounds]_vars

(***************************************************************************)
(* package model: Bytes32 and BigInt with their JSON forms.  A string is   *)
(* the sequence of its characters, a byte a number of 0..255; Bytes32 is   *)
(* an array of Bytes32Len bytes.                                           *)
(***************************************************************************)
Quote == "\""

\* encoding/hex: hextable, and the digits DecodeString takes besides
HexTable == << "0", "1", "2", "3", "4", "5", "6", "7", "8", "9",
              "a", "b", "c", "d", "e", "f" >>
UpperHex == << "A", "B", "C", "D", "E", "F" >>

\* hex.EncodeToString
EncodeToString(bytes) ==
  [i \in 1..(2 * Len(bytes)) |->
     IF i % 2 = 1 THEN HexTable[(bytes[(i + 1) \div 2] \div 16) + 1]
                  ELSE HexTable[(bytes[i \div 2] % 16) + 1]]

\* encoding/hex fromHexChar: the value of a digit, -1 for any other character
FromHexChar(c) ==
  IF \E i \in 1..16 : HexTable[i] = c THEN (CHOOSE i \in 1..16 : HexTable[i] = c) - 1
  ELSE IF \E i \in 1..6 : UpperHex[i] = c THEN (CHOOSE i \in 1..6 : UpperHex[i] = c) + 9
  ELSE -1

RECURSIVE DecodePairs(_, _, _)
\* hex.Decode: pair by pair, the bytes decoded before the first error with the error
DecodePairs(str, j, bytes) ==
  IF 2 * j > Len(str)
    THEN IF Len(str) % 2 = 1
           THEN [bytes |-> bytes,
                 err |-> IF FromHexChar(str[Len(str)]) < 0 THEN "InvalidByteError"
                         ELSE "ErrLength"]
           ELSE [bytes |-> bytes, err |-> "nil"]
    ELSE LET a == FromHexChar(str[2 * j - 1])
             b == FromHexChar(str[2 * j])
         IN IF a < 0 \/ b < 0
              THEN [bytes |-> bytes, err |-> "InvalidByteError"]
              ELSE DecodePairs(str, j + 1, Append(bytes, 16 * a + b))

\* hex.DecodeString
DecodeString(str) == DecodePairs(str, 1, << >>)

\* `"0x" + hex.EncodeToString(m[:])`
Bytes32String(m) == << "0", "x" >> \o EncodeToString(m)

\* fmt.Sprintf(`"%s"`, str)
Quoted(str) == << Quote >> \o str \o << Quote >>

\* Bytes32.MarshalJSON
MarshalBytes32(m) == Quoted(Bytes32String(m))

\* the prefix taken for one character long
WithoutPrefixOfOne(str) == SubSeq(str, 2, Len(str))

\* `[2:]`
WithoutPrefix(str) == SubSeq(str, 3, Len(str))

\* `v[1 : len(v)-1]`
Unquoted(v) == SubSeq(v, 2, Len(v) - 1)

\* copy(dst, src)
Copy(dst, src) == [i \in 1..Len(dst) |-> IF i <= Len(src) THEN src[i] ELSE dst[i]]

\* (*Bytes32).UnmarshalJSON: the receiver after the call, and the error
UnmarshalBytes32(m, data) ==
  IF Len(data) < 4
    THEN [m |-> m, err |-> "invalid MerkleRoot"]
    ELSE LET d == DecodeString(WithoutPrefix(Unquoted(data)))
         IN IF d.err # "nil"
              THEN [m |-> m, err |-> d.err]
              ELSE [m |-> Copy(m, d.bytes), err |-> "nil"]

\* the values and the JSON texts of the calls
ByteValues == {0, 10, 175, 255}
Bytes32Values == [1..Bytes32Len -> ByteValues]
Bytes32Receivers == {[i \in 1..Bytes32Len |-> 0], [i \in 1..Bytes32Len |-> 255]}
TextsOver(alphabet) == UNION {[1..n -> alphabet] : n \in 0..MaxJsonLen}
Bytes32Texts ==
  {MarshalBytes32(m) : m \in Bytes32Values} \cup TextsOver({Quote, "0", "x", "a", "F"})

\* big.Int.String as characters, "<nil>" for a nil *big.Int
DigitChars == << "0", "1", "2", "3", "4", "5", "6", "7", "8", "9" >>
BigIntString(b) ==
  IF IsNil(b)
    THEN << "<", "n", "i", "l", ">" >>
    ELSE LET str == String(b[1])
         IN (IF str.neg THEN << "-" >> ELSE << >>)
              \o [i \in 1..Len(str.digits) |-> DigitChars[str.digits[i] + 1]]

\* BigInt.MarshalJSON
MarshalBigInt(b) == Quoted(BigIntString(b))

IsDigit(c) == \E i \in 1..10 : DigitChars[i] = c
DigitValue(c) == (CHOOSE i \in 1..10 : DigitChars[i] = c) - 1

RECURSIVE DecimalValue(_)
DecimalValue(digits) ==
  IF Len(digits) = 0 THEN 0
  ELSE 10 * DecimalValue(SubSeq(digits, 1, Len(digits) - 1)) + DigitValue(digits[Len(digits)])

\* big.Int.SetString(str, 10): an optional sign, then one decimal digit or more, and
\* nothing else
SetString(str) ==
  LET signed == Len(str) > 0 /\ str[1] \in {"+", "-"}
      digits == IF signed THEN SubSeq(str, 2, Len(str)) ELSE str
  IN IF Len(digits) > 0 /\ \A i \in 1..Len(digits) : IsDigit(digits[i])
       THEN [ok |-> TRUE,
             z |-> IF signed /\ str[1] = "-" THEN 0 - DecimalValue(digits)
                   ELSE DecimalValue(digits)]
       ELSE [ok |-> FALSE, z |-> 0]

\* (*BigInt).UnmarshalJSON: the receiver after the call, and the error
UnmarshalBigInt(b, p) ==
  IF p = << "n", "u", "l", "l" >>
    THEN [b |-> b, err |-> "nil"]
  ELSE IF Len(p) < 2
    THEN [b |-> b, err |-> "invalid BigInt"]
  ELSE LET r == SetString(Unquoted(p))
       IN IF ~r.ok THEN [b |-> b, err |-> "not a valid big integer"]
                   ELSE [b |-> BigInt(r.z), err |-> "nil"]

\* BigInt.IsEmpty
IsEmpty(b) == IsNil(b)

BigIntValues == {NilInt} \cup {BigInt(n) : n \in {-12, -1, 0, 7, 10}}
BigIntReceivers == {NilInt, BigInt(7)}
BigIntTexts ==
  {MarshalBigInt(b) : b \in BigIntValues} \cup {<< "n", "u", "l", "l" >>}
    \cup TextsOver({Quote, "-", "0", "1", "x"})

JsonCall(type, receiver, data) ==
  [type |-> type, receiver |-> receiver, data |-> data, result |-> << >>, err |-> "none"]

InitJson ==
  /\ InitLane(<< 1, MaxSeq >>, TRUE, FrozenTime)
  /\ InitBalance
  /\ InitGoroutines
  /\ InitValidateRequests(TRUE, 0)
  /\ InitOps({"json"})
  /\ \/ \E m \in Bytes32Receivers, data \in Bytes32Texts :
          json = JsonCall("Bytes32", m, data)
     \/ \E b \in BigIntReceivers, p \in BigIntTexts : json = JsonCall("BigInt", b, p)

Bytes32UnmarshalJSON ==
  /\ json.type = "Bytes32"
  /\ json.err = "none"
  /\ LET r == UnmarshalBytes32(json.receiver, json.data)
     IN json' = [json EXCEPT !.result = r.m, !.err = r.err]
  /\ UNCHANGED nonJsonVars

BigIntUnmarshalJSON ==
  /\ json.type = "BigInt"
  /\ json.err = "none"
  /\ LET r == UnmarshalBigInt(json.receiver, json.data)
     IN json' = [json EXCEPT !.result = r.b, !.err = r.err]
  /\ UNCHANGED nonJsonVars

NextJson ==
  \/ Bytes32UnmarshalJSON
  \/ BigIntUnmarshalJSON

SpecJson == InitJson /\ [][NextJson]_vars

\* The validation of the lane's requests next to the watcher goroutine of the source
\* chain: the readers of a connectivity flag, with PollRPCConnection.  The watcher reads
\* the flag of its chain alone, and the flag changes while a wait consults it (see
\* Consulted), so the watcher's steps are scheduled then; its resubscriptions succeed.
FlagWatchers == {"CCIPSendRequested"}

NextFlag ==
  \/ Next
  \/ \E w \in FlagWatchers : Consulted(WatcherChain(w)) /\ WatcherPoll(w, TRUE)
  \/ \E w \in FlagWatchers : Consulted(WatcherChain(w)) /\ WatcherCheckErr(w)

SpecFlag == InitLive /\ [][NextFlag]_vars

\* the commit report's blessing has not been delivered yet: it is in neither store and
\* no wait has consumed it
NotYetBlessed ==
  /\ ReportBlessedWatcher = EmptyMap
  /\ ReportBlessedBySeqNum = EmptyMap
  /\ \A r \in Reqs : "AssertReportBlessed" \notin returned[r]

\* The validation of the lane's requests with the outages of each wait recorded, and
\* with the one TaggedRootBlessed event of the commit report delivered once.
NextTraced ==
  \/ \E c \in Chains : Consulted(c) /\ ConnectionRestored(c)
  \/ \E c \in Chains : Consulted(c) /\ ConnectionIssueDuringWait(c)
  \/ NotYetBlessed /\ OnTaggedRootBlessed(TRUE)
  \/ LaneSteps

SpecTraced == InitLive /\ [][NextTraced]_vars

\* two goroutines wait for the ExecutionStateChanged event of one sequence number
NextRace ==
  \/ ConnectionRestored("dst")
  \/ ConnectionIssue("dst")
  \/ \E st \in ExecStates : RaceOnExecutionStateChanged(st)
  \/ \E g \in Racers : RaceLoad(g)
  \/ \E g \in Racers : RaceDelete(g)
  \/ \E g \in Racers : RaceTimeout(g)

SpecRace == InitBal /\ [][NextRace]_vars

\* the block timestamps a chain can show: they do not decrease along a chain (the
\* transaction before its finality on the source chain; the commit before the blessing
\* before the execution on the destination chain), and the two chains' clocks are not
\* related
BlockTimes ==
  {h \in [tx : Times, fin : Times, ra : Times, rb : Times, ex : Times] :
     h.tx <= h.fin /\ h.ra <= h.rb /\ h.rb <= h.ex}

InitDur ==
  /\ \E h \in BlockTimes : InitLane(<< 1, NumReq >>, TRUE, h)
  /\ InitBalance
  /\ InitRace

\* one validation with every connection healthy, under all block timestamps
NextDur ==
  \/ AdvanceClock
  \/ /\ Scheduled("idle") \/ Scheduled("AssertEventCCIPSendRequested")
     /\ \E s \in ReqSeqNums : OnCCIPSendRequested(s)
  \/ /\ Scheduled("AssertEventReportAccepted")
     /\ OnReportAccepted
  \/ /\ Scheduled("AssertReportBlessed")
     /\ OnTaggedRootBlessed(TRUE)
  \/ /\ Scheduled("AssertEventExecutionStateChanged")
     /\ OnExecutionStateChanged(CurSeq, ExpectedExecState)
  \/ /\ Scheduled("AssertSeqNumberExecuted")
     /\ CommitStoreAdvance
  \/ ValidateRequestByTxHash
  \/ AssertEventCCIPSendRequested
  \/ AssertSendRequestedLogFinalized(TRUE)
  \/ AssertSeqNumberExecuted
  \/ \E hdrOk \in BOOLEAN : AssertEventReportAccepted(hdrOk)
  \/ \E hdrOk \in BOOLEAN : AssertReportBlessed(hdrOk)
  \/ \E hdrOk \in BOOLEAN : AssertEventExecutionStateChanged(hdrOk)

SpecDur == InitDur /\ [][NextDur]_vars

\* AssertNoReportAcceptedEventReceived while the ReportAccepted watcher stores the
\* commit reports, under all block timestamps.
InitNoReport ==
  /\ \E iv \in Intervals, h \in BlockTimes : InitLane(iv, TRUE, h)
  /\ InitBalance
  /\ InitRace

NextNoReport ==
  \/ \E t \in Times : AssertNoReportAcceptedEventReceived(t)
  \/ noReport.pc # "idle" /\ OnReportAccepted
  \/ \E okKeys \in SUBSET SeqNums : NoReportTick(okKeys)
  \/ NoReportDone

SpecNoReport == InitNoReport /\ [][NextNoReport]_vars

\* the same validation under all timestamps of the block of the finalized send request
\* (prevEventAt of the ReportAccepted wait) and of the block of the ReportAccepted event;
\* the later blocks of the destination chain have the timestamp of that block
InitCommit ==
  /\ \E h \in BlockTimes :
       /\ h.tx = 0 /\ h.rb = h.ra /\ h.ex = h.ra
       /\ InitLane(<< 1, NumReq >>, TRUE, h)
  /\ InitBalance
  /\ InitRace

\* the clock is read by the ReportAccepted wait when it returns: it advances during
\* that wait; the waits after it find the headers of their blocks
NextCommit ==
  \/ /\ Scheduled("idle") \/ Scheduled("AssertEventCCIPSendRequested")
     /\ \E s \in ReqSeqNums : OnCCIPSendRequested(s)
  \/ /\ Scheduled("AssertEventReportAccepted")
     /\ OnReportAccepted
  \/ /\ Scheduled("AssertEventReportAccepted")
     /\ AdvanceClock
  \/ /\ Scheduled("AssertReportBlessed")
     /\ OnTaggedRootBlessed(TRUE)
  \/ /\ Scheduled("AssertEventExecutionStateChanged")
     /\ OnExecutionStateChanged(CurSeq, ExpectedExecState)
  \/ /\ Scheduled("AssertSeqNumberExecuted")
     /\ CommitStoreAdvance
  \/ ValidateRequestByTxHash
  \/ AssertEventCCIPSendRequested
  \/ AssertSendRequestedLogFinalized(TRUE)
  \/ AssertSeqNumberExecuted
  \/ \E hdrOk \in BOOLEAN : AssertEventReportAccepted(hdrOk)
  \/ AssertReportBlessed(TRUE)
  \/ AssertEventExecutionStateChanged(TRUE)

SpecCommit == InitCommit /\ [][NextCommit]_vars

(***************************************************************************)
(* Properties                                                              *)
(***************************************************************************)
\* the waits that come before the wait w in ValidateRequestByTxHash
EarlierWaits(w) == {WaitOrder[i] : i \in 1..(WaitIndex(w) - 1)}

\* the wait whose tick records Success for a phase
SuccessWait(p) ==
  CASE p = "CCIPSendRe" -> "AssertEventCCIPSendRequested"
    [] p = "SourceLogFinalized" -> "AssertSendRequestedLogFinalized"
    [] p = "Commit" -> "AssertEventReportAccepted"
    [] p = "ReportBlessed" -> "AssertReportBlessed"
    [] p = "ExecStateChanged" -> "AssertEventExecutionStateChanged"

RecordedPhases == Phases \ {"TX"}

\* C1: the waits of a request run in the order CCIPSendRequested, SourceLogFinalized,
\* sequence-number increase, ReportAccepted, ReportBlessed, ExecutionStateChanged: the
\* wait in progress has every earlier wait of its requests returned without error, the
\* waits returned so far are a prefix of that order, and a phase is recorded Success only
\* with every earlier wait of that request returned without error.
C1_PhasesInOrder ==
  /\ pc \in Waits => \A r \in Concerned(pc) : EarlierWaits(pc) \subseteq returned[r]
  /\ \A r \in Reqs : \A w \in returned[r] : EarlierWaits(w) \subseteq returned[r]
  /\ \A r \in Reqs : \A p \in RecordedPhases :
       stats[r].StatusByPhase[p] = "Success" => EarlierWaits(SuccessWait(p)) \subseteq returned[r]

\* C1 witness: a request has ExecutionStateChanged recorded Success
C1_Witness ==
  \E r \in Reqs : /\ stats[r].StatusByPhase["ExecStateChanged"] = "Success"
                  /\ returned[r] = Waits

C4_HealthyTimeoutFailsAtOnce ==
  ~sawIssue =>
     /\ pc = "failed" /\ lastErr = "notfound"
     /\ expiries = resetTimer + 1
     /\ \E r \in Reqs : stats[r].StatusByPhase[PhaseOf(failedAt)] = "Failure"
     /\ failedAt = "AssertEventCCIPSendRequested" =>
          \A r \in Reqs : stats[r].StatusByPhase["CCIPSendRe"] = "Failure"

\* C4 witness: a wait failed with not-found at its first expiry, the flag never set
C4_Witness ==
  /\ lastErr = "notfound" /\ expiries = 1
  /\ failedAt = "AssertReportBlessed"
  /\ IsConnectionRestoredRecently["dst"] = "nil"

\* C5: the tick of AssertReportBlessed that finds the blessing under the merkle root
\* stores it in ReportBlessedBySeqNum under every sequence number of the report's
\* interval and changes no key outside the interval.
C5_RangeExpansion ==
  [][ ( /\ pc = "AssertReportBlessed" /\ ARM
        /\ pc' = "AssertEventExecutionStateChanged"
        /\ Has(ReportBlessedWatcher, commitReport.MerkleRoot) )
      => \A i \in 0..(MaxSeq + 1) :
           IF commitReport.Interval.Min <= i /\ i <= commitReport.Interval.Max
             THEN /\ Has(ReportBlessedBySeqNum', i)
                  /\ ReportBlessedBySeqNum'[i] = ReportBlessedWatcher[commitReport.MerkleRoot]
             ELSE /\ Has(ReportBlessedBySeqNum', i) = Has(ReportBlessedBySeqNum, i)
                  /\ Has(ReportBlessedBySeqNum, i) =>
                       ReportBlessedBySeqNum'[i] = ReportBlessedBySeqNum[i]
    ]_vars

\* C5 witness: the blessing of a report whose interval is not all of the sequence numbers
\* was expanded
C5_Witness ==
  /\ chain.interval = << 1, 2 >>
  /\ DOMAIN ReportBlessedBySeqNum = {1, 2}
  /\ ~Has(ReportBlessedWatcher, MerkleRoot)

\* a request with this sequence number has ReportBlessed recorded Success
BlessedRecorded(s) ==
  \E r \in Reqs : stats[r].SeqNum = s /\ stats[r].StatusByPhase["ReportBlessed"] = "Success"

\* the wait for the blessing has returned without error for this sequence number
BlessedConsumedFor(s) ==
  \E r \in Reqs : stats[r].SeqNum = s /\ "AssertReportBlessed" \in returned[r]

\* C6: once one waiter has consumed the blessing of a report, every sequence number of
\* the report's interval whose wait has not yet returned Success still finds it, under
\* the root or under its own number in ReportBlessedBySeqNum, whenever the blessing
\* arrived: the wait for that number succeeds at its next tick.
C6_BlessingFoundBySeqNum ==
  (ARM /\ \E s \in SeqNums : BlessedConsumedFor(s)) =>
     \A s \in commitReport.Interval.Min..commitReport.Interval.Max :
        \/ BlessedConsumedFor(s)
        \/ Has(ReportBlessedWatcher, commitReport.MerkleRoot)
        \/ Has(ReportBlessedBySeqNum, s)

\* C6 witness: the second request's wait succeeded on the expanded entry after the first
\* request's wait had consumed the root
C6_Witness ==
  /\ BlessedRecorded(1) /\ BlessedRecorded(2)
  /\ Has(ReportBlessedBySeqNum, 1) /\ ~Has(ReportBlessedBySeqNum, 2)

\* C2: a second delivery of an event to its callback, before the wait for its key runs,
\* leaves the wait's outcome as it is after one delivery, for each of the four stores:
\* the send-requested wait finds its list (and the same list) after two deliveries
\* exactly if it does after one, and the other three waits load the same value.
C2_ReplayKeepsOutcome ==
  /\ \A s \in ReqSeqNums :
       LET once == CCIPSendRequestedCallback(CCIPSendRequestedWatcher, SendRequestedEvent(s))
           twice == CCIPSendRequestedCallback(once, SendRequestedEvent(s))
       IN /\ SendRequestedFound(twice) = SendRequestedFound(once)
          /\ SendRequestedFound(once) => twice[TxHash] = once[TxHash]
  /\ LET once == ReportAcceptedCallback(ReportAcceptedWatcher, ReportAcceptedEvent)
         twice == ReportAcceptedCallback(once, ReportAcceptedEvent)
     IN twice = once
  /\ LET once == TaggedRootBlessedCallback(ReportBlessedWatcher, TaggedRootBlessedLog, TRUE)
         twice == TaggedRootBlessedCallback(once, TaggedRootBlessedLog, TRUE)
     IN twice = once
  /\ \A s \in ReqSeqNums, st \in ExecStates :
       LET once == ExecutionStateChangedCallback(ExecStateChangedWatcher,
                                                 ExecutionStateChangedEvent(s, st))
           twice == ExecutionStateChangedCallback(once, ExecutionStateChangedEvent(s, st))
       IN twice = once

\* C7: of the goroutines polling one key, no more return Success than events were stored
\* under the key.
C7_AtMostOneConsumer ==
  Cardinality({g \in Racers : racers[g].pc = "Success"}) <= raceStored

\* the phases whose Success duration is a block timestamp less the predecessor's time
DurationPhases == {"SourceLogFinalized", "Commit", "ReportBlessed", "ExecStateChanged"}

\* C8: no phase recorded Success has a negative duration.
C8_NoNegativeDuration ==
  \A r \in Reqs : \A p \in DurationPhases :
     stats[r].StatusByPhase[p] = "Success" => stats[r].Duration[p] >= 0

\* C9: PrevBalance holds, for every key, the value of the first RecordBalance call whose
\* snapshot had the key, and has no key that no snapshot had.
C9_FirstWriterWins ==
  \A k \in Keys :
     /\ Has(PrevBalance, k) <=> ~IsNil(firstRecorded[k].first)
     /\ Has(PrevBalance, k) => BigInt(PrevBalance[k]) = firstRecorded[k].first

\* C9 witness: a key was recorded again with another value
C9_Witness ==
  \E k \in Keys : /\ Has(PrevBalance, k)
                  /\ ~IsNil(firstRecorded[k].last)
                  /\ firstRecorded[k].last # firstRecorded[k].first

\* C10: the AmtToAdd and the AmtToSub of a key are the sums of the amounts the Update
\* calls on that key gave, one left out counting as zero; a key no Update named has no
\* entry.
C10_UpdateIsAdditive ==
  \A k \in Keys :
     IF Has(Items, k)
       THEN /\ AmtOrZero(Items[k].AmtToAdd) = sumAdd[k]
            /\ AmtOrZero(Items[k].AmtToSub) = sumSub[k]
       ELSE sumAdd[k] = 0 /\ sumSub[k] = 0

\* C10 witness: a key's AmtToAdd is more than any one Update gave, the other key has an
\* entry too
C10_Witness ==
  /\ \A k \in Keys : Has(Items, k)
  /\ \E k \in Keys : AmtOrZero(Items[k].AmtToAdd) > MaxAmt

\* the balance Verify must expect for a key, from the calls made on the sheet: the first
\* baseline recorded, plus the amounts added, less the amounts subtracted
LedgerExpected(k) == firstRecorded[k].first[1] + sumAdd[k] - sumSub[k]

\* C11: a Verify that is not fatal asserts, for every key of Items, the decimal string of
\* PrevBalance + AmtToAdd - AmtToSub, and reports as failed exactly the keys whose getter
\* returned another balance.
C11_VerifyAssertsLedger ==
  (verifyResult.ran /\ ~verifyResult.fatal) =>
     /\ DOMAIN verifyResult.asserted = DOMAIN Items
     /\ \A k \in DOMAIN Items :
          /\ verifyResult.asserted[k] = String(LedgerExpected(k))
          /\ k \in verifyResult.failed <=> verifyResult.actual[k] # LedgerExpected(k)

\* C11 witness: Verify passed for a key with a baseline and one Update of an AmtToSub,
\* and failed for the other key
C11_Witness ==
  /\ verifyResult.ran /\ ~verifyResult.fatal
  /\ \E k \in DOMAIN Items :
       /\ sumSub[k] > 0 /\ sumAdd[k] = 0
       /\ k \notin verifyResult.failed
       /\ verifyResult.actual[k] = PrevBalance[k] - sumSub[k]
  /\ verifyResult.failed # {}

\* C12: Verify is fatal exactly when a key of Items has no entry in PrevBalance, and a
\* fatal Verify has compared no balance.
C12_VerifyFatalWithoutBaseline ==
  verifyResult.ran =>
     /\ verifyResult.fatal <=> \E k \in DOMAIN Items : ~Has(PrevBalance, k)
     /\ verifyResult.fatal => /\ DOMAIN verifyResult.asserted = {}
                              /\ verifyResult.failed = {}

\* C12 witness: Verify was fatal although another key of Items had its baseline
C12_Witness ==
  /\ verifyResult.ran /\ verifyResult.fatal
  /\ \E k \in DOMAIN Items : Has(PrevBalance, k)
  /\ \E k \in DOMAIN Items : ~Has(PrevBalance, k)

\* C13: calls made concurrently exclude each other (the goroutine between Lock and
\* Unlock holds the mutex, and there is one at most), no update is lost (the amounts of
\* a key are the sums of what the calls gave) and a baseline is the value of the first
\* call that wrote the key.
C13_MutexSerialises ==
  /\ \A g \in Goroutines : calls[g].pc \in {"locked", "loaded"} => mu = g
  /\ \A k \in Keys :
       /\ IF Has(Items, k)
            THEN /\ AmtOrZero(Items[k].AmtToAdd) = sumAdd[k]
                 /\ AmtOrZero(Items[k].AmtToSub) = sumSub[k]
            ELSE sumAdd[k] = 0 /\ sumSub[k] = 0
       /\ Has(PrevBalance, k) <=> ~IsNil(firstRecorded[k].first)
       /\ Has(PrevBalance, k) => BigInt(PrevBalance[k]) = firstRecorded[k].first

\* C13 witness: both goroutines have returned, from two Updates that added to one key
C13_Witness ==
  /\ \A g \in Goroutines : calls[g].pc = "done"
  /\ \E k \in Keys : sumAdd[k] > MaxAmt

\* a wait loop is running
LoopRunning == pc \in TimedWaits /\ (pc = "AssertReportBlessed" => ARM)

\* C14: no wait loop runs for ever (the validation is, again and again, outside the wait
\* loops: no loop is the one it stays in), and no wait sees more than four expirations
\* of its timer.
C14_WaitsTerminate ==
  /\ [](expiries <= MaxResets + 2)
  /\ []<>(~LoopRunning)

\* C14 witness: the wait for the commit store's sequence number ended at the fourth
\* expiry of its timer
C14_Witness ==
  /\ pc = "failed" /\ failedAt = "AssertSeqNumberExecuted"
  /\ expiries = MaxResets + 2

\* C15: once the lane's context is cancelled and a watcher goroutine has exited, no
\* subscription of its event kind is live any more, whether StartEventWatchers made it
\* or a resubscription did.
C15_ExitUnsubscribes ==
  \A w \in Watchers : ~watchers[w].running => watchers[w].live = {}

\* C16: once the lane's context is cancelled, a phase wait in progress does nothing but
\* return with an error: it neither goes on to the next wait nor resets its timer.
C16_CancelEndsWaits ==
  [][(ctxDone /\ LoopRunning) =>
       (pc' \in {pc, "failed"} /\ resetTimer' = resetTimer /\ returned' = returned)]_vars

\* C17: between two iterations of its loop a running watcher has exactly one live
\* subscription of its event kind.
C17_OneLiveSubscription ==
  \A w \in Watchers :
    (watchers[w].running /\ watchers[w].pc = "select") =>
      Cardinality(watchers[w].live) = 1

\* C18: an event that a chain has emitted at or after the start block is eventually in
\* its watcher's store once the chain's connectivity is restored for good and the
\* lane's context is not cancelled.
C18_ReplayStoresEveryEvent ==
  \A w \in ReplayWatchers :
    <>[](/\ chainEvent[w] # "none"
         /\ IsConnectionRestoredRecently[WatcherChain(w)] = "true"
         /\ ~ctxDone)
      => <>EventStored(w)

\* C19: while a ConnectionRestored that followed a ConnectionIssue has not been answered
\* by a resubscription attempt of a running watcher of that chain, the watcher's next
\* poll makes the attempt.
C19_RestoreTriggersAttempt ==
  \A w \in Watchers :
    (/\ restorePending[w]
     /\ watchers[w].running
     /\ watchers[w].pc = "select"
     /\ ~ctxDone) => WouldResubscribe(w)

\* C20: a watcher whose own last resubscription attempt failed is not marked
\* resubscribed.
C20_FailedAttemptNotResubscribed ==
  \A w \in Watchers :
    watchers[w].attempt = "error" => ~watchers[w].resubscribed

\* C21: after ValidateRequestByTxHash has returned the error of a phase wait, the status
\* log of every request of the group holds Failure for the phase of that wait.
C21_FailureRecordedForEveryRequest ==
  (/\ pc = "failed"
   /\ failedAt \in Waits
   /\ \A i, j \in 1..Len(msgLogs) : i # j => msgLogs[i] # msgLogs[j]) =>
    \A r \in Reqs : stats[r].StatusByPhase[PhaseOf(failedAt)] = "Failure"

\* C22: once a phase wait has returned an error, ValidateRequestByTxHash has returned
\* with that error: it is in no wait, then or later, and the error is the one it hands
\* to ValidateRequests.
C22_ErrorEndsValidation ==
  failedAt # "none" => (pc = "failed" /\ lastErr # "none")

C22_Witness ==
  /\ pc = "failed"
  /\ failedAt = "AssertEventReportAccepted"
  /\ lastErr = "rpc"

\* C23: a step that changes the connectivity flag of a chain sets it to true or to
\* false, never back to unset, and is a step of no phase wait and of no watcher
\* goroutine: it changes nothing of the validation, of the stores or of the watchers.
C23_FlagWrittenByPollAlone ==
  [][\A c \in Chains :
       IsConnectionRestoredRecently'[c] # IsConnectionRestoredRecently[c] =>
         /\ IsConnectionRestoredRecently'[c] \in {"true", "false"}
         /\ UNCHANGED << storeVars, valVars, watchers, sharedErr >>]_vars

C23_Witness ==
  /\ IsConnectionRestoredRecently["src"] = "false"
  /\ pc = "AssertEventCCIPSendRequested"
  /\ resetTimer = 1
  /\ watchers["CCIPSendRequested"].resubscribed

\* C24: a wait that returned the plain 'not found' failure saw no ConnectionIssue of its
\* chain at any time while it ran.
C24_NotFoundOnlyWhenHealthyThroughout ==
  (pc = "failed" /\ lastErr = "notfound") => ~outage

\* C27: with the one blessing of the commit report delivered once, after
\* AssertReportBlessed has returned without error for every sequence number of the
\* report's interval, neither ReportBlessedWatcher nor ReportBlessedBySeqNum holds an
\* entry.
C27_NoBlessingLeftOver ==
  (ARM /\ \A s \in chain.interval[1]..chain.interval[2] : BlessedConsumedFor(s)) =>
    /\ ReportBlessedWatcher = EmptyMap
    /\ ReportBlessedBySeqNum = EmptyMap

\* the destination waits
DestWaits == Waits \ {"AssertEventCCIPSendRequested", "AssertSendRequestedLogFinalized"}

\* the destination-phase waits of the request r have taken place: its first one has
\* returned, without error or with the Failure it recorded
DestWaitsStarted(r) ==
  \/ "AssertSeqNumberExecuted" \in returned[r]
  \/ stats[r].StatusByPhase["Commit"] = "Failure"

\* C25: when a destination-phase wait of one request of the transaction has failed, the
\* destination-phase waits of the other requests (each with its own sequence number)
\* have taken place all the same.
C25_RequestsIndependent ==
  (/\ pc = "failed"
   /\ failedAt \in DestWaits
   /\ \A i, j \in 1..Len(msgLogs) : i # j => msgLogs[i] # msgLogs[j]) =>
    \A r \in Reqs : DestWaitsStarted(r)

C28_UpdateAfterAllValidated ==
  /\ Items # EmptyMap =>
       /\ validateRequests = "updated"
       /\ successfulExecution
       /\ txLeft = 0
       /\ pc = "done"
  /\ validateRequests \in {"failed", "returned"} => Items = EmptyMap
  /\ validateRequests = "failed" <=> (pc = "failed" /\ validateRequests # "validating")

C28_Witness ==
  /\ validateRequests = "updated"
  /\ Has(Items, "BridgeToken-Sender")
  /\ Items["BridgeToken-Sender"].AmtToSub = BigInt(NumReq * TransferAmount)
  /\ txLeft = 0

\* C29: a step never changes a phase status that is Success or Failure to another status
\* (for the requests of a transaction whose send-requested events were stored once each);
\* the steps of the wait that ExecuteManually issues are among them.
C29_RecordedStatusIsTerminal ==
  [][(\A i, j \in 1..Len(msgLogs) : i # j => msgLogs[i] # msgLogs[j]) =>
       \A r \in Reqs, p \in Phases :
         stats[r].StatusByPhase[p] \in {"Success", "Failure"} =>
           stats'[r].StatusByPhase[p] = stats[r].StatusByPhase[p]]_vars

\* C30: the step in which AssertEventReportAccepted returns records Success for the
\* commit phase with the duration 1 second when the event's timestamp (the block's, or
\* the clock's when the header is not to be had) is earlier than prevEventAt, and with
\* the timestamp minus prevEventAt otherwise; the timestamp it returns is that timestamp,
\* not prevEventAt plus the duration.
C30_ClampedDurationUnclampedTimestamp ==
  [][(pc = "AssertEventReportAccepted" /\ pc' = "AssertReportBlessed") =>
       LET r == ReqStatOf(stats, CurSeq)
           prevEventAt == sourceLogFinalizedAt
           timestamp == reportAcceptedAt'
       IN /\ timestamp \in {chain.hdr.ra, wallClock}
          /\ stats'[r].StatusByPhase["Commit"] = "Success"
          /\ timestamp < prevEventAt => stats'[r].Duration["Commit"] = 1
          /\ timestamp >= prevEventAt =>
               stats'[r].Duration["Commit"] = timestamp - prevEventAt]_vars

\* C30 witness: the wait has returned an event timestamp earlier than prevEventAt, and
\* the duration recorded is the clamp's
C30_Witness ==
  /\ pc = "AssertReportBlessed"
  /\ cur = 1
  /\ reportAcceptedAt < sourceLogFinalizedAt
  /\ reportAcceptedAt = chain.hdr.ra
  /\ stats[ReqStatOf(stats, CurSeq)].StatusByPhase["Commit"] = "Success"
  /\ stats[ReqStatOf(stats, CurSeq)].Duration["Commit"] = 1

\* C31: AssertNoReportAcceptedEventReceived returns an error at the tick at which the
\* store holds a ReportAccepted event of a block later than lastSeenTimestamp, and so
\* returns nil only if no tick found such an event.
C31_ReportAfterCursingIsAnError ==
  /\ noReport.held => noReport.pc = "error"
  /\ noReport.pc = "nil" => ~noReport.held

\* C32: when Multicall returns the error of the failed sending of its transaction, every
\* request of the batch has Failure for the TX phase.
C32_MulticallFailureRecorded ==
  (lastCall.op = "Multicall" /\ lastCall.err = "send") =>
    /\ lastCall.reqStats # << >>
    /\ \A i \in 1..Len(lastCall.reqStats) :
         lastCall.reqStats[i].RequestStat.StatusByPhase["TX"] = "Failure"

\* C33: a goroutine's AssertSeqNumberExecuted has returned nil only if the commit store's
\* expected next sequence number exceeds its seqNumberBefore; the cached
\* NextSeqNumToCommit is the initial 1 or a value read from the commit store and is never
\* greater than the commit store's number; and a wait has failed only by its timer, with
\* the Failure recorded.
C33_CachedSeqNumIsSound ==
  /\ \A g \in SeqGoroutines :
       seqWaiters[g].pc = "nil" => chain.nextSeq > seqWaiters[g].seqNumberBefore
  /\ NextSeqNumToCommit \in {InitialNextSeqNum} \cup seqReads
  /\ NextSeqNumToCommit <= chain.nextSeq
  /\ \A g \in SeqGoroutines :
       seqWaiters[g].pc = "failed" => stats[g].StatusByPhase["Commit"] = "Failure"

\* C33 witness: a slower goroutine has overwritten the cached number with a smaller one
\* than the commit store's, and both goroutines have returned nil
C33_Witness ==
  /\ \A g \in SeqGoroutines : seqWaiters[g].pc = "nil"
  /\ \E v \in seqReads : v > NextSeqNumToCommit
  /\ NextSeqNumToCommit < chain.nextSeq
  /\ NextSeqNumToCommit > InitialNextSeqNum

\* C34: Verify reads Items and PrevBalance only between whole operations: never while a
\* goroutine that holds the mutex is between its read and its write of the map.
C34_VerifyReadsBetweenOperations ==
  [][(verifyResult'.ran /\ ~verifyResult.ran) =>
       \A g \in Goroutines : ~(mu = g /\ calls[g].pc = "loaded")]_vars
\* C35: the tick of AssertEventExecutionStateChanged that reads an event of another state
\* than the expected one deletes the entry, records Failure for ExecStateChanged and
\* returns the error, whatever the connectivity flag of the destination chain is.
C35_StateMismatchFailsAtOnce ==
  [][(/\ pc = "AssertEventExecutionStateChanged"
      /\ Has(ExecStateChangedWatcher, CurSeq)
      /\ ExecStateChangedWatcher[CurSeq].State # ExpectedExecState
      /\ ~Has(ExecStateChangedWatcher', CurSeq))
     => /\ pc' = "failed"
        /\ lastErr' = "state"
        /\ failedAt' = "AssertEventExecutionStateChanged"
        /\ stats'[ReqStatOf(stats, CurSeq)].StatusByPhase["ExecStateChanged"] = "Failure"
        /\ IsConnectionRestoredRecently' = IsConnectionRestoredRecently]_vars

C35_Witness ==
  /\ pc = "failed"
  /\ lastErr = "state"
  /\ failedAt = "AssertEventExecutionStateChanged"
  /\ ~Has(ExecStateChangedWatcher, CurSeq)
  /\ IsConnectionRestoredRecently["dst"] = "false"
  /\ \E r \in DOMAIN stats : stats[r].StatusByPhase["ExecStateChanged"] = "Failure"

\* C36: with no ARM contract, AssertReportBlessed returns prevEventAt without error as
\* the one thing it does: the two ReportBlessed stores and the status logs stay as they
\* are, no ReportBlessed status is ever recorded, no TaggedRootBlessed watcher runs, and
\* the ExecutionStateChanged wait measures its duration from the ReportAccepted
\* timestamp.
C36_SkippedFrom(w) ==
  /\ pc = w
  /\ pc' # pc
  /\ ~ARM

C36_NothingOfReportBlessed ==
  ~ARM =>
    /\ ~watchers["TaggedRootBlessed"].running
    /\ ReportBlessedWatcher = EmptyMap
    /\ ReportBlessedBySeqNum = EmptyMap
    /\ \A r \in DOMAIN stats : stats[r].StatusByPhase["ReportBlessed"] = "Pending"
    /\ pc = "AssertEventExecutionStateChanged" => PrevEventAt(pc) = reportAcceptedAt

C36_ReturnsPrevEventAt ==
  /\ C36_SkippedFrom("AssertReportBlessed") =>
       /\ pc' = "AssertEventExecutionStateChanged"
       /\ reportBlessedAt' = reportAcceptedAt
       /\ lastErr' = lastErr
       /\ failedAt' = failedAt
       /\ stats' = stats
       /\ wallClock' = wallClock
       /\ UNCHANGED storeVars
  /\ (C36_SkippedFrom("AssertEventExecutionStateChanged") /\ stats' # stats) =>
       LET r == ReqStatOf(stats, CurSeq)
       IN stats'[r].Duration["ExecStateChanged"] \in
            {chain.hdr.ex - reportAcceptedAt, wallClock - reportAcceptedAt}

C37_ExpectedBalanceOverRounds ==
  /\ lastCall.op = "ValidateRequests" =>
       /\ ExpectedBalance(PrevBalance["BridgeToken-Sender"], Items["BridgeToken-Sender"])
            = firstRecorded["BridgeToken-Sender"].first[1] - totals.sent * TransferAmount
       /\ ExpectedBalance(PrevBalance["FeeToken-OnRamp"], Items["FeeToken-OnRamp"])
            = firstRecorded["FeeToken-OnRamp"].first[1] + totals.fees
  /\ lastCall.op = "RecordStateBeforeTransfer" =>
       /\ lane = [NumberOfReq |-> 0, TotalFee |-> 0, SentReqs |-> << >>]
       /\ \A k \in Keys : PrevBalance[k] = firstRecorded[k].first[1]

C37_Witness ==
  /\ lastCall.op = "ValidateRequests"
  /\ totals.sent = MaxSent
  /\ lane.NumberOfReq < totals.sent
  /\ lane.NumberOfReq > 0
  /\ firstRecorded["BridgeToken-Sender"].first # firstRecorded["BridgeToken-Sender"].last

\* C38: the requests sent since the last RecordStateBeforeTransfer, whatever calls of
\* SendRequests and Multicall sent them, have ReqNo that differ from one another.
C38_ReqNoDistinct ==
  \A t1, t2 \in DOMAIN lane.SentReqs :
    \A i1 \in DOMAIN lane.SentReqs[t1], i2 \in DOMAIN lane.SentReqs[t2] :
      lane.SentReqs[t1][i1].ReqNo = lane.SentReqs[t2][i2].ReqNo => (t1 = t2 /\ i1 = i2)

\* C39: UnmarshalJSON of the MarshalJSON of a Bytes32 x returns no error and leaves x
\* in the receiver; of a text shorter than 4 characters, or whose characters after the
\* quote and the two of the prefix are not all hexadecimal digits, it returns an error
\* and leaves the receiver as it was.
C39_NotHexadecimal(data) ==
  \E i \in 4..(Len(data) - 1) : FromHexChar(data[i]) < 0

C39_Bytes32RoundTrip ==
  (json.type = "Bytes32" /\ json.err # "none") =>
    /\ \A x \in Bytes32Values :
         json.data = MarshalBytes32(x) => (json.err = "nil" /\ json.result = x)
    /\ (Len(json.data) < 4 \/ C39_NotHexadecimal(json.data)) =>
         (json.err # "nil" /\ json.result = json.receiver)

C39_Witness ==
  /\ json.type = "Bytes32"
  /\ json.err = "nil"
  /\ \E x \in Bytes32Values :
       /\ x[1] = 10
       /\ x[Bytes32Len] = 175
       /\ json.data = MarshalBytes32(x)
       /\ json.result = x
       /\ \A i \in 1..Bytes32Len : json.receiver[i] # x[i]

\* C40: UnmarshalJSON of the MarshalJSON of a BigInt b, a negative one and the empty one
\* (Int nil) included, returns no error and leaves a value equal to b, empty where b is.
C40_BigIntRoundTrip ==
  (json.type = "BigInt" /\ json.err # "none") =>
    \A b \in BigIntValues :
      json.data = MarshalBigInt(b) =>
        /\ json.err = "nil"
        /\ json.result = b
        /\ IsEmpty(json.result) = IsEmpty(b)

====
